---------------------------- MODULE Spec2Model ----------------------------
(***************************************************************************)
(* Model of the Sanity content client (class SanityClient) and of the      *)
(* remote content store it talks to.                                       *)
(*                                                                         *)
(* A client method is an async function: it runs without interruption up   *)
(* to an await of a network call, and again from the answer to the next    *)
(* await.  One action starts a method (the code up to its first await);    *)
(* the actions of the store handle one request in flight and run the       *)
(* method's continuation up to its next await, its return or its throw.    *)
(***************************************************************************)
EXTENDS Integers, Sequences, FiniteSets, TLC

VARIABLES
    config,   \* the client's fields: projectId, dataset, apiVersion, token, useCdn
    store,    \* the remote dataset: document id -> document, or Null
    calls     \* per caller: the method call in progress (or none)

vars == <<config, store, calls>>

-----------------------------------------------------------------------------
(* Bounds of the model *)

\* An id carries at most this many leading 'drafts.' prefixes.
MaxPrefix == 1

\* A bulk operation list has at most this many mutations.
MaxOps == 2

\* The store reports at most this many type names.
MaxTypes == 2

-----------------------------------------------------------------------------
(* Document ids.  An id is the string 'drafts.' repeated some number of    *)
(* times followed by a base name; it is modelled as the sequence of those  *)
(* parts, so that startsWith / replace / template concatenation act on it  *)
(* as they act on the string.                                              *)

DraftsPrefix == "drafts."

BaseNames == {"post-1"}

RECURSIVE Prefixed(_, _)
Prefixed(n, base) == IF n = 0 THEN <<base>> ELSE <<DraftsPrefix>> \o Prefixed(n - 1, base)

Ids == {Prefixed(n, b) : n \in 0..MaxPrefix, b \in BaseNames}

\* id.startsWith('drafts.')
StartsWithDrafts(id) == Len(id) > 1 /\ Head(id) = DraftsPrefix

\* id.replace('drafts.', ''): the first occurrence is removed
ReplaceDrafts(id) ==
    IF \E i \in 1..(Len(id) - 1) : id[i] = DraftsPrefix
    THEN LET i == CHOOSE j \in 1..(Len(id) - 1) :
                      /\ id[j] = DraftsPrefix
                      /\ \A k \in 1..(j - 1) : id[k] # DraftsPrefix
         IN  SubSeq(id, 1, i - 1) \o SubSeq(id, i + 1, Len(id))
    ELSE id

\* `drafts.${id}`
WithDrafts(id) == <<DraftsPrefix>> \o id

-----------------------------------------------------------------------------
(* Documents: functions from field names to values.                        *)

Null == [null |-> TRUE]

\* JSON values of application fields: numbers, strings, and objects given as
\* the list of their entries in key order
Num(n) == [type |-> "number", v |-> n]

Str(t) == [type |-> "string", v |-> t]

Obj(entries) == [type |-> "object", v |-> entries]

Titles == {Str("T"), Str("U")}

\* { a, ...b }: the fields of b override those of a
Spread(a, b) == b @@ a

\* const { k1, k2, ...rest } = doc
Rest(doc, ks) == [k \in (DOMAIN doc) \ ks |-> doc[k]]

StoredDoc(id, title) ==
    [_id |-> id, _type |-> "post", _rev |-> "r1", title |-> title]

StoredDocs(id) == {StoredDoc(id, t) : t \in Titles}

Stores == {s \in [Ids -> UNION {StoredDocs(id) : id \in Ids} \cup {Null}] :
              \A id \in Ids : s[id] = Null \/ s[id]._id = id}

-----------------------------------------------------------------------------
(* Connection configuration.  A SanityConfig is a record whose optional    *)
(* fields (token, useCdn) may be missing.                                  *)

ConfigBase == [projectId |-> "proj", dataset |-> "production"]

OptionalConfigs ==
    {<<>>} \cup {[token |-> t] : t \in {"", "sk-token"}}
           \cup {[useCdn |-> u] : u \in BOOLEAN}
           \cup {[token |-> t, useCdn |-> u] : t \in {"", "sk-token"}, u \in BOOLEAN}

ConfigInputs == {ConfigBase @@ o : o \in OptionalConfigs}

\* JavaScript truthiness of an optional string field
Truthy(rec, field) == field \in DOMAIN rec /\ rec[field] # ""

\* mutant: the override is combined with || instead of ??
SanityClientOr(cfg) ==
    LET fields == [projectId  |-> cfg.projectId,
                   dataset    |-> cfg.dataset,
                   apiVersion |-> IF Truthy(cfg, "apiVersion") THEN cfg.apiVersion
                                  ELSE "2024-01-20",
                   useCdn     |-> IF "useCdn" \in DOMAIN cfg /\ cfg.useCdn THEN TRUE
                                  ELSE ~Truthy(cfg, "token")]
    IN  IF "token" \in DOMAIN cfg THEN fields @@ [token |-> cfg.token] ELSE fields

\* constructor(config)
SanityClient(cfg) ==
    LET fields == [projectId  |-> cfg.projectId,
                   dataset    |-> cfg.dataset,
                   apiVersion |-> IF Truthy(cfg, "apiVersion") THEN cfg.apiVersion
                                  ELSE "2024-01-20",
                   useCdn     |-> IF "useCdn" \in DOMAIN cfg THEN cfg.useCdn
                                  ELSE ~Truthy(cfg, "token")]
    IN  IF "token" \in DOMAIN cfg THEN fields @@ [token |-> cfg.token] ELSE fields

\* !this.token is false
HasToken(this) == Truthy(this, "token")

\* get baseUrl(): the part that varies is the subdomain
BaseUrl(this) == IF this.useCdn THEN "apicdn" ELSE "api"

\* mutant: the header is attached whenever a token was given, empty or not
HeadersWhenDefined(this) ==
    IF "token" \in DOMAIN this
    THEN ("Content-Type" :> "application/json") @@
         ("Authorization" :> <<"Bearer ", this.token>>)
    ELSE ("Content-Type" :> "application/json")

\* get headers()
Headers(this) ==
    IF HasToken(this)
    THEN ("Content-Type" :> "application/json") @@
         ("Authorization" :> <<"Bearer ", this.token>>)
    ELSE ("Content-Type" :> "application/json")

-----------------------------------------------------------------------------
(* Requests and the record of a method call.                               *)

\* encoded-length threshold below which a query is sent by GET
QueryThreshold == 10000

Pending == [pending |-> TRUE]

NoCall == [status |-> "idle", op |-> "none", args |-> <<>>,
           reqs |-> <<>>, got |-> <<>>, ret |-> Null]

NewCall(op, args) == [status |-> "running", op |-> op, args |-> args,
                      reqs |-> <<>>, got |-> <<>>, ret |-> Null]

\* await fetch(...): the request is issued and the call waits for its answer
Fetch(c, req) == [c EXCEPT !.status = "waiting",
                           !.reqs = Append(@, req),
                           !.got = Append(@, Pending)]

\* return value
Return(c, value) == [c EXCEPT !.status = "returned", !.ret = value]

\* throw new Error(...)
Throw(c, error) == [c EXCEPT !.status = "threw", !.ret = error]

AuthRequiredError(message) == [error |-> "AuthRequiredError", message |-> message]

NotFoundError(message, id) == [error |-> "NotFoundError", message |-> message, id |-> id]

\* mutant: the error carries neither the status nor the body text
QueryErrorBare(resp) == [error |-> "QueryError", message |-> "Sanity query failed"]

QueryError(resp) ==
    [error |-> "QueryError", message |-> "Sanity query failed",
     status |-> resp.status, text |-> resp.text]

MutationError(resp) ==
    [error |-> "MutationError", message |-> "Sanity mutation failed",
     status |-> resp.status, text |-> resp.text]

\* A string is a sequence of pieces; the piece [s |-> "a", times |-> n] is
\* 'a'.repeat(n), and a literal is a piece repeated once.
Lit(s) == [s |-> s, times |-> 1]

Repeat(s, n) == [s |-> s, times |-> n]

\* the characters encodeURIComponent leaves as they are
Unreserved ==
    {"a", "b", "c", "d", "e", "f", "g", "h", "i", "j", "k", "l", "m",
     "n", "o", "p", "q", "r", "s", "t", "u", "v", "w", "x", "y", "z",
     "A", "B", "C", "D", "E", "F", "G", "H", "I", "J", "K", "L", "M",
     "N", "O", "P", "Q", "R", "S", "T", "U", "V", "W", "X", "Y", "Z",
     "0", "1", "2", "3", "4", "5", "6", "7", "8", "9",
     "-", "_", ".", "!", "~", "*", "'", "(", ")"}

\* encodeURIComponent(s).length for a string of ASCII characters: every
\* other character becomes a three-character %XX escape
RECURSIVE EncodedLengthOf(_)
EncodedLengthOf(s) ==
    IF Len(s) = 0 THEN 0
    ELSE (IF SubSeq(s, 1, 1) \in Unreserved THEN 1 ELSE 3) + EncodedLengthOf(Tail(s))

\* encodeURIComponent(groqQuery).length
RECURSIVE EncodedLength(_)
EncodedLength(str) ==
    IF str = <<>> THEN 0
    ELSE Head(str).times * EncodedLengthOf(Head(str).s) + EncodedLength(Tail(str))

\* groqQuery.length
RECURSIVE Length(_)
Length(str) ==
    IF str = <<>> THEN 0
    ELSE Head(str).times * Len(Head(str).s) + Length(Tail(str))

\* mutant: the length of the query itself is compared with the threshold
QueryByLength(this, c, groq, params) ==
    IF Length(groq) < QueryThreshold
    THEN Fetch(c, [endpoint |-> "data/query", host |-> BaseUrl(this), method |-> "GET",
                   headers |-> Headers(this), query |-> groq, params |-> params])
    ELSE Fetch(c, [endpoint |-> "data/query", host |-> BaseUrl(this), method |-> "POST",
                   headers |-> Headers(this), query |-> groq, params |-> params])

\* query(groqQuery, params), up to its await of fetch; params is Null when
\* the caller gives none
Query(this, c, groq, params) ==
    IF EncodedLength(groq) < QueryThreshold
    THEN Fetch(c, [endpoint |-> "data/query", host |-> BaseUrl(this), method |-> "GET",
                   headers |-> Headers(this), query |-> groq, params |-> params])
    ELSE Fetch(c, [endpoint |-> "data/query", host |-> BaseUrl(this), method |-> "POST",
                   headers |-> Headers(this), query |-> groq, params |-> params])

\* query(groqQuery, params) called by the user of the client
QueryBegin(this, groq, params) ==
    Query(this, NewCall("query", <<groq, params>>), groq, params)

\* query(): the code after the answer of fetch number i
QueryResume(c, i) ==
    IF ~c.got[i].ok THEN Throw(c, QueryError(c.got[i]))
    ELSE Return(c, [result |-> c.got[i].result])

\* the query text of getDocument
GetDocumentQuery == <<Lit("*[_id == $id][0]")>>

\* getDocumentsByType: options?.limit || 100
DefaultLimit == 100

\* getDocumentsByType: options?.offset || 0
DefaultOffset == 0

\* options?.field || fallback, for a numeric field: a missing field and the
\* number 0 are both falsy
NumberOr(options, field, fallback) ==
    IF field \in DOMAIN options /\ options[field] # 0 THEN options[field] ELSE fallback

\* getDocument(id), up to its await
GetDocument(this, c, id) == Query(this, c, GetDocumentQuery, [id |-> id])

\* getDocument(id) called by the user of the client
GetDocumentBegin(this, id) == GetDocument(this, NewCall("getDocument", <<id>>), id)

\* mutant: a null result is raised as the not-found error
GetDocumentResumeThrows(c) ==
    IF ~c.got[1].ok THEN Throw(c, QueryError(c.got[1]))
    ELSE IF c.got[1].result = Null THEN Throw(c, NotFoundError("Document not found", c.args[1]))
    ELSE Return(c, c.got[1].result)

\* getDocument: after the answer, return result.result
GetDocumentResume(c) ==
    IF ~c.got[1].ok THEN Throw(c, QueryError(c.got[1]))
    ELSE Return(c, c.got[1].result)

\* str.startsWith(prefix)
StartsWith(str, prefix) ==
    Len(str) >= Len(prefix) /\ SubSeq(str, 1, Len(prefix)) = prefix

\* the query text of getDocumentTypes
GetDocumentTypesQuery == <<Lit("array::unique(*[]._type)")>>

\* getDocumentTypes(), up to the await of query
GetDocumentTypesBegin(this) ==
    Query(this, NewCall("getDocumentTypes", <<>>), GetDocumentTypesQuery, Null)

\* mutant: only the names that start with 'sanity.' are filtered out
GetDocumentTypesResumeSanityOnly(c) ==
    IF ~c.got[1].ok THEN Throw(c, QueryError(c.got[1]))
    ELSE Return(c, SelectSeq(c.got[1].result, LAMBDA type : ~StartsWith(type, "sanity.")))

\* getDocumentTypes: after the answer
GetDocumentTypesResume(c) ==
    IF ~c.got[1].ok THEN Throw(c, QueryError(c.got[1]))
    ELSE Return(c, SelectSeq(c.got[1].result,
                             LAMBDA type : /\ ~StartsWith(type, "sanity.")
                                           /\ ~StartsWith(type, "system.")))

\* getDocumentsByType: the query text
GetDocumentsByTypeQuery(options) ==
    LET limit  == NumberOr(options, "limit", DefaultLimit)
        offset == NumberOr(options, "offset", DefaultOffset)
        order  == IF Truthy(options, "order") THEN options.order ELSE "_createdAt desc"
    IN  << Lit("*[_type == $type] | order("), Lit(order), Lit(") ["),
           Lit(ToString(offset)), Lit("..."), Lit(ToString(offset + limit)), Lit("]") >>

\* getDocumentsByType(type, options), up to the await of query; options is
\* the empty record when the caller gives none
GetDocumentsByTypeBegin(this, type, options) ==
    Query(this, NewCall("getDocumentsByType", <<type, options>>),
          GetDocumentsByTypeQuery(options), [type |-> type])

\* getDocumentsByType: after the answer
GetDocumentsByTypeResume(c) ==
    IF ~c.got[1].ok THEN Throw(c, QueryError(c.got[1]))
    ELSE Return(c, c.got[1].result)

\* mutant: the token is not checked
MutateNoAuthCheck(this, c, mutations) ==
    Fetch(c, [endpoint |-> "data/mutate", host |-> "api", method |-> "POST",
              headers |-> Headers(this),
              mutations |-> mutations, returnDocuments |-> FALSE])

\* mutant: the mutate request is sent to the host of the queries
MutateViaBaseUrl(this, c, mutations) ==
    IF ~HasToken(this)
    THEN Throw(c, AuthRequiredError("Write operations require a Sanity API token"))
    ELSE Fetch(c, [endpoint |-> "data/mutate", host |-> BaseUrl(this), method |-> "POST",
                   headers |-> Headers(this),
                   mutations |-> mutations, returnDocuments |-> FALSE])

\* mutate(mutations), up to its await of fetch
Mutate(this, c, mutations) ==
    IF ~HasToken(this)
    THEN Throw(c, AuthRequiredError("Write operations require a Sanity API token"))
    ELSE Fetch(c, [endpoint |-> "data/mutate", host |-> "api", method |-> "POST",
                   headers |-> Headers(this),
                   mutations |-> mutations, returnDocuments |-> FALSE])

\* mutate(): the code after the answer of fetch number i
MutateResume(c, i) ==
    IF ~c.got[i].ok THEN Throw(c, MutationError(c.got[i]))
    ELSE Return(c, c.got[i].body)

-----------------------------------------------------------------------------
(* Draft / publish workflow.                                               *)

\* mutant: the prefix is not removed
PublishedIdOfNoStrip(draftId) == draftId

\* publishDocument: the published id
PublishedIdOf(draftId) ==
    IF StartsWithDrafts(draftId) THEN ReplaceDrafts(draftId) ELSE draftId

\* mutant: only _id is stripped from the fetched document
PublishMutationsKeepRev(draftId, draft) ==
    << [createOrReplace |-> Spread([_id |-> PublishedIdOf(draftId)], Rest(draft, {"_id"}))],
       [delete |-> [id |-> draftId]] >>

\* mutant: the published document is written with its id only
PublishMutationsIdOnly(draftId, draft) ==
    << [createOrReplace |-> [_id |-> PublishedIdOf(draftId)]],
       [delete |-> [id |-> draftId]] >>

\* publishDocument: the mutation list
PublishMutations(draftId, draft) ==
    << [createOrReplace |-> Spread([_id |-> PublishedIdOf(draftId)],
                                   Rest(draft, {"_id", "_rev"}))],
       [delete |-> [id |-> draftId]] >>

\* publishDocument(draftId), up to the await of getDocument
PublishDocumentBegin(this, draftId) ==
    GetDocument(this, NewCall("publishDocument", <<draftId>>), draftId)

\* publishDocument: after an answer
PublishDocumentResume(this, c) ==
    LET draftId == c.args[1] IN
    IF Len(c.reqs) = 1
    THEN IF ~c.got[1].ok THEN Throw(c, QueryError(c.got[1]))
         ELSE IF c.got[1].result = Null
              THEN Throw(c, NotFoundError("Draft document not found", draftId))
              ELSE Mutate(this, c, PublishMutations(draftId, c.got[1].result))
    ELSE MutateResume(c, 2)

\* mutant: the draft id is the id as given
DraftIdOfAsGiven(publishedId) == publishedId

\* unpublishDocument: the draft id
DraftIdOf(publishedId) ==
    IF StartsWithDrafts(publishedId) THEN publishedId ELSE WithDrafts(publishedId)

\* mutant: the draft is created only when none exists
UnpublishMutationsIfNotExists(publishedId, published) ==
    << [createIfNotExists |-> Spread([_id |-> DraftIdOf(publishedId)],
                                     Rest(published, {"_id", "_rev"}))],
       [delete |-> [id |-> publishedId]] >>

\* unpublishDocument: the mutation list
UnpublishMutations(publishedId, published) ==
    << [createOrReplace |-> Spread([_id |-> DraftIdOf(publishedId)],
                                   Rest(published, {"_id", "_rev"}))],
       [delete |-> [id |-> publishedId]] >>

\* unpublishDocument(publishedId), up to the await of getDocument
UnpublishDocumentBegin(this, publishedId) ==
    GetDocument(this, NewCall("unpublishDocument", <<publishedId>>), publishedId)

\* unpublishDocument: after an answer
UnpublishDocumentResume(this, c) ==
    LET publishedId == c.args[1] IN
    IF Len(c.reqs) = 1
    THEN IF ~c.got[1].ok THEN Throw(c, QueryError(c.got[1]))
         ELSE IF c.got[1].result = Null
              THEN Throw(c, NotFoundError("Published document not found", publishedId))
              ELSE Mutate(this, c, UnpublishMutations(publishedId, c.got[1].result))
    ELSE MutateResume(c, 2)

\* getDraftStatus: the two ids looked up
StatusPublishedId(documentId) ==
    IF StartsWithDrafts(documentId) THEN ReplaceDrafts(documentId) ELSE documentId

\* mutant: the draft id is built from the id as given
StatusDraftIdAsGiven(documentId) == WithDrafts(documentId)

StatusDraftId(documentId) == WithDrafts(StatusPublishedId(documentId))

\* mutant: an item without documents is classified as a draft
DraftStatusNeverNone(published, draft) ==
    IF published # Null /\ draft # Null THEN "both"
    ELSE IF published # Null THEN "published"
    ELSE "draft"

\* getDraftStatus: the classification
DraftStatus(published, draft) ==
    IF published # Null /\ draft # Null THEN "both"
    ELSE IF published # Null THEN "published"
    ELSE IF draft # Null THEN "draft"
    ELSE "none"

\* getDraftStatus(documentId), up to the await of Promise.all
GetDraftStatusBegin(this, documentId) ==
    GetDocument(this,
                GetDocument(this, NewCall("getDraftStatus", <<documentId>>),
                            StatusPublishedId(documentId)),
                StatusDraftId(documentId))

\* Promise.all over the fetches of c: rejected by the first failed answer,
\* fulfilled when every answer is in
AnyFailed(c) == \E i \in 1..Len(c.got) : c.got[i] # Pending /\ ~c.got[i].ok

FirstFailed(c) == c.got[CHOOSE i \in 1..Len(c.got) : c.got[i] # Pending /\ ~c.got[i].ok]

AllAnswered(c) == \A i \in 1..Len(c.got) : c.got[i] # Pending

\* getDraftStatus: after an answer
GetDraftStatusResume(this, c) ==
    IF AnyFailed(c) THEN Throw(c, QueryError(FirstFailed(c)))
    ELSE IF ~AllAnswered(c) THEN c
    ELSE LET published == c.got[1].result
             draft == c.got[2].result
         IN  Return(c, [published |-> published,
                        draft |-> draft,
                        hasUnpublishedChanges |-> draft # Null,
                        status |-> DraftStatus(published, draft)])

-----------------------------------------------------------------------------
(* Write operations.                                                       *)

\* document._id is set (a non-empty string)
HasId(document) == "_id" \in DOMAIN document /\ Len(document._id) > 0

\* createDocument(document)
CreateDocumentBegin(this, document) ==
    Mutate(this, NewCall("createDocument", <<document>>),
           << IF HasId(document) THEN [createOrReplace |-> document]
                                 ELSE [create |-> document] >>)

\* updateDocument(id, document)
UpdateDocumentBegin(this, id, document) ==
    Mutate(this, NewCall("updateDocument", <<id, document>>),
           << [createOrReplace |-> Spread([_id |-> id], document)] >>)

\* mutant: every instruction field is sent, null when the caller gave none
PatchDocumentBeginAllFields(this, id, patches) ==
    Mutate(this, NewCall("patchDocument", <<id, patches>>),
           << [patch |-> [k \in {"id", "set", "unset", "inc", "dec", "insert"} |->
                             IF k = "id" THEN id
                             ELSE IF k \in DOMAIN patches THEN patches[k] ELSE Null]] >>)

\* patchDocument(id, patches)
PatchDocumentBegin(this, id, patches) ==
    Mutate(this, NewCall("patchDocument", <<id, patches>>),
           << [patch |-> Spread([id |-> id], patches)] >>)

\* deleteDocument(id)
DeleteDocumentBegin(this, id) ==
    Mutate(this, NewCall("deleteDocument", <<id>>), << [delete |-> [id |-> id]] >>)

\* Object.keys(op)[0] of a bulk operation (an object with one key)
FirstKey(op) == CHOOSE k \in DOMAIN op : TRUE

\* mutant: every entry is tagged with the kind of the first operation
DryRunResultFirstKind(operations) ==
    [transactionId |-> "dry-run",
     results |-> [i \in 1..Len(operations) |->
                     [id |-> <<"operation-", i - 1>>,
                      operation |-> FirstKey(operations[1])]]]

\* bulkMutate: the synthesized result of a dry run
DryRunResult(operations) ==
    [transactionId |-> "dry-run",
     results |-> [i \in 1..Len(operations) |->
                     [id |-> <<"operation-", i - 1>>,
                      operation |-> FirstKey(operations[i])]]]

\* mutant: the delete operations are filtered out of the submitted list
BulkMutateBeginFiltered(this, operations, dryRun) ==
    LET c == NewCall("bulkMutate", <<operations, dryRun>>) IN
    IF ~HasToken(this)
    THEN Throw(c, AuthRequiredError("Bulk operations require a Sanity API token"))
    ELSE IF dryRun THEN Return(c, DryRunResult(operations))
    ELSE Mutate(this, c, SelectSeq(operations, LAMBDA op : "delete" \notin DOMAIN op))

\* mutant: the dry run is answered before the token is checked
BulkMutateBeginDryFirst(this, operations, dryRun) ==
    LET c == NewCall("bulkMutate", <<operations, dryRun>>) IN
    IF dryRun THEN Return(c, DryRunResult(operations))
    ELSE Mutate(this, c, operations)

\* bulkMutate(operations, options)
BulkMutateBegin(this, operations, dryRun) ==
    LET c == NewCall("bulkMutate", <<operations, dryRun>>) IN
    IF ~HasToken(this)
    THEN Throw(c, AuthRequiredError("Bulk operations require a Sanity API token"))
    ELSE IF dryRun THEN Return(c, DryRunResult(operations))
    ELSE Mutate(this, c, operations)

\* uploadImage(imageBuffer, filename, contentType)
UploadImageBegin(this, filename, contentType) ==
    LET c == NewCall("uploadImage", <<filename, contentType>>) IN
    IF ~HasToken(this)
    THEN Throw(c, AuthRequiredError("Image upload requires a Sanity API token"))
    ELSE Fetch(c, [endpoint |-> "assets/images", host |-> "api", method |-> "POST",
                   headers |-> ("Content-Type" :> contentType) @@
                               ("Authorization" :> <<"Bearer ", this.token>>),
                   filename |-> filename])

\* uploadImage: after the answer
UploadImageResume(this, c) ==
    IF ~c.got[1].ok
    THEN Throw(c, [error |-> "UploadError", message |-> "Image upload failed",
                   status |-> c.got[1].status, text |-> c.got[1].text])
    ELSE Return(c, c.got[1].body.document)

\* getHistory: options?.limit || 25
DefaultHistoryLimit == 25

\* getHistory(documentId, options)
GetHistoryBegin(this, documentId, limit) ==
    LET c == NewCall("getHistory", <<documentId, limit>>) IN
    IF ~HasToken(this)
    THEN Throw(c, AuthRequiredError("History access requires a Sanity API token"))
    ELSE Fetch(c, [endpoint |-> "data/history", host |-> "api", method |-> "GET",
                   headers |-> Headers(this), id |-> documentId,
                   limit |-> IF limit = 0 THEN DefaultHistoryLimit ELSE limit])

\* getHistory: the entry synthesized from the current document
FallbackEntry(doc) ==
    [_id |-> doc._id,
     _rev |-> IF Truthy(doc, "_rev") THEN doc._rev ELSE "unknown",
     _updatedAt |-> IF Truthy(doc, "_updatedAt") THEN doc._updatedAt ELSE "now"]

\* mutant: a non-success answer of the history endpoint is surfaced
GetHistoryResumeSurfaces(this, c) ==
    IF ~c.got[1].ok
    THEN Throw(c, [error |-> "HistoryError", message |-> "History request failed",
                   status |-> c.got[1].status, text |-> c.got[1].text])
    ELSE IF "documents" \in DOMAIN c.got[1].body
         THEN Return(c, c.got[1].body.documents)
         ELSE Return(c, <<>>)

\* getHistory: after an answer
GetHistoryResume(this, c) ==
    IF Len(c.reqs) = 1
    THEN IF ~c.got[1].ok THEN GetDocument(this, c, c.args[1])
         ELSE IF "documents" \in DOMAIN c.got[1].body
              THEN Return(c, c.got[1].body.documents)
              ELSE Return(c, <<>>)
    ELSE IF ~c.got[2].ok THEN Throw(c, QueryError(c.got[2]))
         ELSE IF c.got[2].result # Null
              THEN Return(c, <<FallbackEntry(c.got[2].result)>>)
              ELSE Return(c, <<>>)

-----------------------------------------------------------------------------
(* Document diffing.                                                       *)

\* JSON.stringify(value)
RECURSIVE StringifyEntries(_)
StringifyEntries(entries) ==
    IF entries = <<>> THEN ""
    ELSE "\"" \o entries[1][1] \o "\":" \o ToString(entries[1][2])
         \o (IF Len(entries) > 1 THEN "," ELSE "") \o StringifyEntries(Tail(entries))

Stringify(value) ==
    CASE value.type = "number" -> ToString(value.v)
      [] value.type = "string" -> "\"" \o value.v \o "\""
      [] value.type = "object" -> "{" \o StringifyEntries(value.v) \o "}"

\* the field names of the model, in the order Object.keys lists them
FieldOrder == <<"_id", "_type", "_rev", "_updatedAt", "title", "a", "b", "c">>

\* k.startsWith('_')
StartsWithUnderscore(k) == k \in {"_id", "_type", "_rev", "_createdAt", "_updatedAt"}

\* Object.keys(doc)
Keys(doc) == SelectSeq(FieldOrder, LAMBDA k : k \in DOMAIN doc)

\* Object.keys(doc).filter(k => !k.startsWith('_'))
AppKeys(doc) == SelectSeq(Keys(doc), LAMBDA k : ~StartsWithUnderscore(k))

Has(keys, k) == \E i \in 1..Len(keys) : keys[i] = k

\* mutant: added and removed are taken from the wrong document
DiffSwapped(docA, docB) ==
    LET keysA == AppKeys(docA)
        keysB == AppKeys(docB)
        same(k) == Stringify(docA[k]) = Stringify(docB[k])
    IN  [added     |-> SelectSeq(keysA, LAMBDA k : ~Has(keysB, k)),
         removed   |-> SelectSeq(keysB, LAMBDA k : ~Has(keysA, k)),
         changed   |-> SelectSeq(keysA, LAMBDA k : Has(keysB, k) /\ ~same(k)),
         unchanged |-> SelectSeq(keysA, LAMBDA k : Has(keysB, k) /\ same(k))]

\* compareDocuments: the four lists computed from the two documents
Diff(docA, docB) ==
    LET keysA == AppKeys(docA)
        keysB == AppKeys(docB)
        same(k) == Stringify(docA[k]) = Stringify(docB[k])
    IN  [added     |-> SelectSeq(keysB, LAMBDA k : ~Has(keysA, k)),
         removed   |-> SelectSeq(keysA, LAMBDA k : ~Has(keysB, k)),
         changed   |-> SelectSeq(keysA, LAMBDA k : Has(keysB, k) /\ ~same(k)),
         unchanged |-> SelectSeq(keysA, LAMBDA k : Has(keysB, k) /\ same(k))]

\* compareDocuments(idA, idB), up to the await of Promise.all
CompareDocumentsBegin(this, idA, idB) ==
    GetDocument(this, GetDocument(this, NewCall("compareDocuments", <<idA, idB>>), idA), idB)

\* mutant: the second document is tested before the first
CompareDocumentsResumeSecondFirst(this, c) ==
    IF AnyFailed(c) THEN Throw(c, QueryError(FirstFailed(c)))
    ELSE IF ~AllAnswered(c) THEN c
    ELSE IF c.got[2].result = Null
         THEN Throw(c, NotFoundError("Document not found", c.args[2]))
    ELSE IF c.got[1].result = Null
         THEN Throw(c, NotFoundError("Document not found", c.args[1]))
    ELSE Return(c, Diff(c.got[1].result, c.got[2].result))

\* compareDocuments: after an answer
CompareDocumentsResume(this, c) ==
    IF AnyFailed(c) THEN Throw(c, QueryError(FirstFailed(c)))
    ELSE IF ~AllAnswered(c) THEN c
    ELSE IF c.got[1].result = Null
         THEN Throw(c, NotFoundError("Document not found", c.args[1]))
    ELSE IF c.got[2].result = Null
         THEN Throw(c, NotFoundError("Document not found", c.args[2]))
    ELSE Return(c, Diff(c.got[1].result, c.got[2].result))

-----------------------------------------------------------------------------
(* The tool gateway: a tool call runs its handler inside try / catch.      *)

\* error.message
ErrorMessage(e) ==
    IF "status" \in DOMAIN e THEN <<e.message, ": ", e.status, " - ", e.text>>
    ELSE IF "id" \in DOMAIN e THEN <<e.message, ": ", e.id>>
    ELSE <<e.message>>

\* catch (error): the error becomes the tool's answer
CallToolCatch(c) ==
    IF c.status = "threw"
    THEN Return(c, [content |-> <<"Error: ">> \o ErrorMessage(c.ret), isError |-> TRUE])
    ELSE c

\* the tool call whose handler has run the client call cc so far
ToolCall(name, args, cc) == CallToolCatch([cc EXCEPT !.op = name, !.args = <<args>>])

\* handlePatch: the patches object built from the tool's arguments
HandlePatchPatches(args) ==
    [k \in {"set", "unset", "inc", "dec"} \cap DOMAIN args |-> args[k]]

\* handlePatch(args), up to the await of patchDocument
HandlePatchBegin(this, args) ==
    ToolCall("sanity_patch", args, PatchDocumentBegin(this, args.id, HandlePatchPatches(args)))

\* handlePatch: after the answer
HandlePatchResume(c) ==
    LET cc == MutateResume(c, 1) IN
    IF cc.status = "returned"
    THEN Return(cc, [content |-> [success |-> TRUE,
                                  transactionId |-> cc.ret.transactionId,
                                  patched |-> cc.ret.results]])
    ELSE CallToolCatch(cc)

\* the names of the tools the gateway lists
TOOLS ==
    {"sanity_query", "sanity_get_document", "sanity_list_documents", "sanity_search",
     "sanity_get_types", "sanity_get_type_info", "sanity_count", "sanity_create",
     "sanity_update", "sanity_patch", "sanity_delete", "sanity_publish",
     "sanity_unpublish"}

\* the handler of the tool call c has run the client call as far as cc: the
\* client's result is wrapped into the tool's answer, its error is caught
HandlerAnswer(c, cc, content) ==
    LET back == [cc EXCEPT !.op = c.op, !.args = c.args] IN
    IF back.status = "returned" THEN Return(back, [content |-> content])
    ELSE CallToolCatch(back)

\* handleGetDocument(args)
HandleGetDocumentBegin(this, args) ==
    ToolCall("sanity_get_document", args, GetDocumentBegin(this, args.id))

HandleGetDocumentResume(c) ==
    LET cc == GetDocumentResume(c)
        doc == cc.ret
    IN  HandlerAnswer(c, cc, IF doc = Null
                             THEN <<"Document with ID \"", c.args[1].id, "\" not found">>
                             ELSE doc)

\* handleGetTypes()
HandleGetTypesBegin(this, args) ==
    ToolCall("sanity_get_types", args, GetDocumentTypesBegin(this))

HandleGetTypesResume(c) ==
    LET cc == GetDocumentTypesResume(c)
        types == cc.ret
    IN  HandlerAnswer(c, cc, [documentTypes |-> types])

\* handleUpdate(args)
HandleUpdateBegin(this, args) ==
    ToolCall("sanity_update", args, UpdateDocumentBegin(this, args.id, args.document))

HandleUpdateResume(c) ==
    LET cc == MutateResume(c, 1)
        result == cc.ret
    IN  HandlerAnswer(c, cc, [success |-> TRUE, transactionId |-> result.transactionId,
                              updated |-> result.results])

\* handleDelete(args)
HandleDeleteBegin(this, args) ==
    ToolCall("sanity_delete", args, DeleteDocumentBegin(this, args.id))

HandleDeleteResume(c) ==
    LET cc == MutateResume(c, 1)
        result == cc.ret
    IN  HandlerAnswer(c, cc, [success |-> TRUE, transactionId |-> result.transactionId,
                              deleted |-> result.results])

\* mutant: the id is handed to publishDocument as given
HandlePublishDraftIdAsGiven(id) == id

\* handlePublish: the draft id handed to publishDocument
HandlePublishDraftId(id) == IF StartsWithDrafts(id) THEN id ELSE WithDrafts(id)

\* handlePublish(args)
HandlePublishBegin(this, args) ==
    ToolCall("sanity_publish", args, PublishDocumentBegin(this, HandlePublishDraftId(args.id)))

HandlePublishResume(this, c) ==
    LET cc == PublishDocumentResume(this, [c EXCEPT !.args =
                                              <<HandlePublishDraftId(c.args[1].id)>>])
        result == cc.ret
    IN  HandlerAnswer(c, cc, [success |-> TRUE, transactionId |-> result.transactionId,
                              published |-> result.results])

\* handleUnpublish: the published id handed to unpublishDocument
HandleUnpublishPublishedId(id) == IF StartsWithDrafts(id) THEN ReplaceDrafts(id) ELSE id

\* handleUnpublish(args)
HandleUnpublishBegin(this, args) ==
    ToolCall("sanity_unpublish", args,
             UnpublishDocumentBegin(this, HandleUnpublishPublishedId(args.id)))

HandleUnpublishResume(this, c) ==
    LET cc == UnpublishDocumentResume(this, [c EXCEPT !.args =
                                                <<HandleUnpublishPublishedId(c.args[1].id)>>])
        result == cc.ret
    IN  HandlerAnswer(c, cc, [success |-> TRUE, transactionId |-> result.transactionId,
                              unpublished |-> result.results])

\* default: throw new Error(`Unknown tool: ${name}`)
UnknownToolError(name) == [error |-> "UnknownTool", message |-> "Unknown tool", id |-> name]

\* mutant: the error of an unknown tool name is not caught
CallToolUncaught(this, name, args) ==
    CASE name = "sanity_get_document" -> HandleGetDocumentBegin(this, args)
      [] name = "sanity_get_types"    -> HandleGetTypesBegin(this, args)
      [] name = "sanity_update"       -> HandleUpdateBegin(this, args)
      [] name = "sanity_patch"        -> HandlePatchBegin(this, args)
      [] name = "sanity_delete"       -> HandleDeleteBegin(this, args)
      [] name = "sanity_publish"      -> HandlePublishBegin(this, args)
      [] name = "sanity_unpublish"    -> HandleUnpublishBegin(this, args)
      [] OTHER -> Throw(NewCall(name, <<args>>), UnknownToolError(name))

\* the handler of tool calls: switch (name) inside try / catch
CallTool(this, name, args) ==
    CASE name = "sanity_get_document" -> HandleGetDocumentBegin(this, args)
      [] name = "sanity_get_types"    -> HandleGetTypesBegin(this, args)
      [] name = "sanity_update"       -> HandleUpdateBegin(this, args)
      [] name = "sanity_patch"        -> HandlePatchBegin(this, args)
      [] name = "sanity_delete"       -> HandleDeleteBegin(this, args)
      [] name = "sanity_publish"      -> HandlePublishBegin(this, args)
      [] name = "sanity_unpublish"    -> HandleUnpublishBegin(this, args)
      [] OTHER -> CallToolCatch(Throw(NewCall(name, <<args>>), UnknownToolError(name)))

\* the code of the call's method that follows an answer
Resume(this, c) ==
    CASE c.op = "publishDocument"   -> PublishDocumentResume(this, c)
      [] c.op = "unpublishDocument" -> UnpublishDocumentResume(this, c)
      [] c.op = "getDraftStatus"    -> GetDraftStatusResume(this, c)
      [] c.op = "compareDocuments"  -> CompareDocumentsResume(this, c)
      [] c.op = "getHistory"        -> GetHistoryResume(this, c)
      [] c.op = "uploadImage"       -> UploadImageResume(this, c)
      [] c.op = "query"             -> QueryResume(c, 1)
      [] c.op = "sanity_patch"      -> HandlePatchResume(c)
      [] c.op = "sanity_get_document" -> HandleGetDocumentResume(c)
      [] c.op = "sanity_get_types"  -> HandleGetTypesResume(c)
      [] c.op = "sanity_update"     -> HandleUpdateResume(c)
      [] c.op = "sanity_delete"     -> HandleDeleteResume(c)
      [] c.op = "sanity_publish"    -> HandlePublishResume(this, c)
      [] c.op = "sanity_unpublish"  -> HandleUnpublishResume(this, c)
      [] c.op = "getDocumentsByType" -> GetDocumentsByTypeResume(c)
      [] c.op = "getDocument"       -> GetDocumentResume(c)
      [] c.op = "getDocumentTypes"  -> GetDocumentTypesResume(c)
      [] OTHER                      -> MutateResume(c, 1)

-----------------------------------------------------------------------------
(* The remote store.  The variable store is the dataset restricted to the  *)
(* ids and fields of the model; a mutation list is applied as a whole, in  *)
(* list order, or not at all.                                              *)

NewRev == "r2"

Put(st, id, doc) ==
    IF id \in DOMAIN st THEN [st EXCEPT ![id] = Spread(doc, [_id |-> id, _rev |-> NewRev])]
    ELSE st

Exists(st, id) == id \in DOMAIN st /\ st[id] # Null

\* the fields of the model among those of a patch's set and unset instructions
Patched(doc, patch) ==
    LET afterSet == IF "set" \in DOMAIN patch THEN Spread(doc, patch.set) ELSE doc
        gone == IF "unset" \in DOMAIN patch
                THEN {patch.unset[i] : i \in 1..Len(patch.unset)} ELSE {}
    IN  Rest(afterSet, gone)

\* one mutation: whether the store accepts it, and the store after it
ApplyMutation(st, m) ==
    CASE "createOrReplace" \in DOMAIN m ->
            IF HasId(m.createOrReplace)
            THEN [ok |-> TRUE, store |-> Put(st, m.createOrReplace._id, m.createOrReplace)]
            ELSE [ok |-> FALSE, store |-> st]
      [] "createIfNotExists" \in DOMAIN m ->
            IF ~HasId(m.createIfNotExists) THEN [ok |-> FALSE, store |-> st]
            ELSE IF Exists(st, m.createIfNotExists._id) THEN [ok |-> TRUE, store |-> st]
            ELSE [ok |-> TRUE,
                  store |-> Put(st, m.createIfNotExists._id, m.createIfNotExists)]
      [] "create" \in DOMAIN m ->
            IF ~HasId(m.create) THEN [ok |-> TRUE, store |-> st]
            ELSE IF Exists(st, m.create._id) THEN [ok |-> FALSE, store |-> st]
            ELSE [ok |-> TRUE, store |-> Put(st, m.create._id, m.create)]
      [] "delete" \in DOMAIN m ->
            [ok |-> TRUE,
             store |-> IF m.delete.id \in DOMAIN st
                       THEN [st EXCEPT ![m.delete.id] = Null] ELSE st]
      [] "patch" \in DOMAIN m ->
            IF ~Exists(st, m.patch.id) THEN [ok |-> FALSE, store |-> st]
            ELSE [ok |-> TRUE,
                  store |-> Put(st, m.patch.id, Patched(st[m.patch.id], m.patch))]

\* a mutation list, in list order
RECURSIVE ApplyMutations(_, _)
ApplyMutations(st, mutations) ==
    IF mutations = <<>> THEN [ok |-> TRUE, store |-> st]
    ELSE LET first == ApplyMutation(st, Head(mutations)) IN
         IF ~first.ok THEN [ok |-> FALSE, store |-> st]
         ELSE ApplyMutations(first.store, Tail(mutations))

\* the id a mutation names
MutationId(m) ==
    CASE "delete" \in DOMAIN m -> m.delete.id
      [] "patch" \in DOMAIN m -> m.patch.id
      [] OTHER -> IF HasId(m[FirstKey(m)]) THEN m[FirstKey(m)]._id ELSE <<"generated">>

MutationResult(mutations) ==
    [transactionId |-> "txn",
     results |-> [i \in 1..Len(mutations) |->
                     [id |-> MutationId(mutations[i]),
                      operation |-> FirstKey(mutations[i])]]]

\* type names the store may report: ordinary names, names with a reserved
\* prefix, and names that only resemble one
TypeNames == {"post", "sanity.imageAsset", "system.something", "sanity", "mysystem.x"}

\* the answers of the store to the query of getDocumentTypes
TypeLists == UNION {[1..n -> TypeNames] : n \in 0..MaxTypes}

\* the result of a lookup by id
QueryResult(st, req) == IF req.params.id \in DOMAIN st THEN st[req.params.id] ELSE Null

\* the results the store may give to a query: the document or null for a
\* lookup by id, some list of stored documents for any other query
QueryResults(st, req) ==
    IF req.query = GetDocumentQuery THEN {QueryResult(st, req)}
    ELSE IF req.query = GetDocumentTypesQuery THEN TypeLists
    ELSE {<<>>} \cup {<<st[id]>> : id \in {i \in DOMAIN st : st[i] # Null}}

FailedResponse == [ok |-> FALSE, status |-> 400, text |-> "Invalid query"]

HistoryBodies ==
    {[documents |-> <<>>],
     [documents |-> <<[_id |-> <<"post-1">>, _rev |-> "r1", _updatedAt |-> "t1"]>>],
     [other |-> TRUE]}

AssetDocument == [_id |-> "image-1", _type |-> "sanity.imageAsset", url |-> "cdn/image-1"]

-----------------------------------------------------------------------------
(* Arguments of the calls.                                                 *)

Callers == {"c1", "c2"}

NewDocuments ==
    {[_type |-> "post", title |-> Str("T")]} \cup
    {[_id |-> id, _type |-> "post", title |-> Str("T")] : id \in Ids}

PatchInstructions ==
    [set    |-> [title |-> Str("U")],
     unset  |-> <<"title">>,
     inc    |-> [views |-> 1],
     dec    |-> [views |-> 1],
     insert |-> [after |-> "tags[-1]", items |-> <<"x">>]]

PatchInputs == {[k \in ks |-> PatchInstructions[k]] : ks \in SUBSET DOMAIN PatchInstructions}

BulkOperations ==
    {[create            |-> [_type |-> "post", title |-> Str("T")]],
     [createOrReplace   |-> [_id |-> Prefixed(0, "post-1"), _type |-> "post",
                             title |-> Str("U")]],
     [createIfNotExists |-> [_id |-> Prefixed(1, "post-1"), _type |-> "post",
                             title |-> Str("T")]],
     [patch             |-> [id |-> Prefixed(0, "post-1"), set |-> [title |-> Str("T")]]],
     [delete            |-> [id |-> Prefixed(1, "post-1")]]}

\* query strings: the short and the long query of the tests, and queries
\* whose encoded length is the threshold or one less
QueryStrings ==
    {<<Lit("*[_type == \"post\"]")>>,
     <<Lit("*[_type == \"post\" && "), Repeat("a", 15000), Lit("]")>>} \cup
    {<<Lit(p), Repeat("a", QueryThreshold - EncodedLengthOf(p) - d)>> :
        p \in {"*", "* ", "*[a == $min]"}, d \in {0, 1}}

QueryParams == {Null, [type |-> "post"], [min |-> 1, type |-> "post"]}

\* options of getDocumentsByType: limit, offset and order given or not
ListOptions ==
    LET numbers == {<<>>} \cup {[limit |-> l] : l \in {0, 10}}
                          \cup {[offset |-> o] : o \in {0, 20}}
                          \cup {[limit |-> l, offset |-> o] : l \in {0, 10}, o \in {0, 20}}
    IN  numbers \cup {n @@ [order |-> "title asc"] : n \in numbers}

\* tool names of the README's table of tools that go beyond the basics
ReadmeTools ==
    {"sanity_references", "sanity_diff", "sanity_history", "sanity_bulk",
     "sanity_draft_status"}

ToolNames ==
    {"sanity_get_document", "sanity_get_types", "sanity_update", "sanity_delete",
     "sanity_publish", "sanity_unpublish"} \cup ReadmeTools \cup {"sanity_nothing"}

\* the arguments a caller gives to a tool
ToolArguments(name) ==
    CASE name = "sanity_get_types" -> {<<>>}
      [] name = "sanity_update" ->
            {[id |-> id, document |-> [_type |-> "post", title |-> Str("U")]] : id \in Ids}
      [] name = "sanity_diff" -> {[idA |-> a, idB |-> b] : a \in Ids, b \in Ids}
      [] name = "sanity_bulk" -> {[operations |-> ops] : ops \in {<<>>, <<[delete |-> [id |-> Prefixed(0, "post-1")]]>>}}
      [] OTHER -> {[id |-> id] : id \in Ids}

OperationLists == UNION {[1..n -> BulkOperations] : n \in 0..MaxOps}

-----------------------------------------------------------------------------
(* Actions: a caller starts a method.                                      *)

Start(s, c) ==
    /\ calls[s].status = "idle"
    /\ calls' = [calls EXCEPT ![s] = c]
    /\ UNCHANGED <<config, store>>

PublishDocument(s) == \E id \in Ids : Start(s, PublishDocumentBegin(config, id))

\* publishDocument called with a 'drafts.'-prefixed id
PublishDraft(s) ==
    \E id \in {i \in Ids : StartsWithDrafts(i)} : Start(s, PublishDocumentBegin(config, id))

UnpublishDocument(s) == \E id \in Ids : Start(s, UnpublishDocumentBegin(config, id))

GetDraftStatus(s) == \E id \in Ids : Start(s, GetDraftStatusBegin(config, id))

\* A caller's workflow on one item, each call awaited before the next:
\* getDraftStatus(X), publishDocument('drafts.X'), getDraftStatus(X),
\* unpublishDocument(X), getDraftStatus(X)
RoundTripSteps(X) ==
    << [op |-> "getDraftStatus", id |-> X],
       [op |-> "publishDocument", id |-> WithDrafts(X)],
       [op |-> "getDraftStatus", id |-> X],
       [op |-> "unpublishDocument", id |-> X],
       [op |-> "getDraftStatus", id |-> X] >>

RoundTripBegin(this, step) ==
    CASE step.op = "publishDocument"   -> PublishDocumentBegin(this, step.id)
      [] step.op = "unpublishDocument" -> UnpublishDocumentBegin(this, step.id)
      [] OTHER                         -> GetDraftStatusBegin(this, step.id)

\* the workflow starts: its first call; the caller keeps the item and the
\* calls that have returned so far
RoundTripStarts(s) ==
    \E b \in BaseNames :
        Start(s, RoundTripBegin(config, RoundTripSteps(<<b>>)[1])
                     @@ [item |-> <<b>>, done |-> <<>>])

\* a call of the workflow has returned: the caller makes the next one
RoundTripContinues(s) ==
    /\ calls[s].status = "returned"
    /\ "done" \in DOMAIN calls[s]
    /\ Len(calls[s].done) + 1 < Len(RoundTripSteps(calls[s].item))
    /\ calls' = [calls EXCEPT ![s] =
                    RoundTripBegin(config, RoundTripSteps(calls[s].item)[Len(calls[s].done) + 2])
                        @@ [item |-> calls[s].item,
                            done |-> Append(calls[s].done, Rest(calls[s], {"item", "done"}))]]
    /\ UNCHANGED <<config, store>>

CompareDocuments(s) ==
    \E idA \in Ids, idB \in Ids : Start(s, CompareDocumentsBegin(config, idA, idB))

CreateDocument(s) == \E d \in NewDocuments : Start(s, CreateDocumentBegin(config, d))

UpdateDocument(s) ==
    \E id \in Ids, d \in NewDocuments : Start(s, UpdateDocumentBegin(config, id, d))

PatchDocument(s) ==
    \E id \in Ids, p \in PatchInputs : Start(s, PatchDocumentBegin(config, id, p))

DeleteDocument(s) == \E id \in Ids : Start(s, DeleteDocumentBegin(config, id))

BulkMutate(s) ==
    \E ops \in OperationLists, dryRun \in BOOLEAN :
        Start(s, BulkMutateBegin(config, ops, dryRun))

UploadImage(s) ==
    \E contentType \in {"image/jpeg", "image/png"} :
        Start(s, UploadImageBegin(config, "photo.jpg", contentType))

GetHistory(s) ==
    \E id \in Ids, limit \in {0, 5} : Start(s, GetHistoryBegin(config, id, limit))

\* the tool sanity_patch is called
SanityPatch(s) ==
    \E id \in Ids, p \in PatchInputs : Start(s, HandlePatchBegin(config, [id |-> id] @@ p))

\* a tool is called by its name: a tool of the gateway, a name the README
\* lists, or a name nobody lists
ToolCalled(s) ==
    \E name \in ToolNames : \E args \in ToolArguments(name) :
        Start(s, CallTool(config, name, args))

QueryCall(s) ==
    \E groq \in QueryStrings, params \in QueryParams :
        Start(s, QueryBegin(config, groq, params))

GetDocumentCall(s) == \E id \in Ids : Start(s, GetDocumentBegin(config, id))

GetDocumentTypes(s) == Start(s, GetDocumentTypesBegin(config))

GetDocumentsByType(s) ==
    \E options \in ListOptions : Start(s, GetDocumentsByTypeBegin(config, "post", options))

\* the caller has the call's result or error; the call is over
CallEnds(s) ==
    /\ calls[s].status \in {"returned", "threw"}
    /\ calls' = [calls EXCEPT ![s] = NoCall]
    /\ UNCHANGED <<config, store>>

-----------------------------------------------------------------------------
(* Actions: the store handles a request in flight, and the method that     *)
(* awaits the answer runs on to its next await, its return or its throw.   *)

InFlight(s, i, endpoint) ==
    /\ calls[s].status = "waiting"
    /\ i \in 1..Len(calls[s].reqs)
    /\ calls[s].got[i] = Pending
    /\ calls[s].reqs[i].endpoint = endpoint

\* mutant: an answer is shared with every call that waits for the same request
AnswerCoalesced(s, i, resp) ==
    calls' = [t \in Callers |->
                 IF t = s
                    \/ (/\ calls[t].status = "waiting"
                        /\ i <= Len(calls[t].reqs)
                        /\ calls[t].got[i] = Pending
                        /\ calls[t].reqs[i] = calls[s].reqs[i])
                 THEN Resume(config, [calls[t] EXCEPT !.got[i] = resp])
                 ELSE calls[t]]

Answer(s, i, resp) ==
    calls' = [calls EXCEPT ![s] = Resume(config, [calls[s] EXCEPT !.got[i] = resp])]

StoreAnswersQuery(s) ==
    \E i \in 1..2 :
        /\ InFlight(s, i, "data/query")
        /\ \E result \in QueryResults(store, calls[s].reqs[i]) :
              Answer(s, i, [ok |-> TRUE, result |-> result])
        /\ UNCHANGED <<config, store>>

StoreAppliesMutations(s) ==
    \E i \in 1..2 :
        /\ InFlight(s, i, "data/mutate")
        /\ LET applied == ApplyMutations(store, calls[s].reqs[i].mutations) IN
           /\ applied.ok
           /\ store' = applied.store
           /\ Answer(s, i, [ok |-> TRUE,
                            body |-> MutationResult(calls[s].reqs[i].mutations)])
        /\ UNCHANGED config

StoreAnswersHistory(s) ==
    \E body \in HistoryBodies :
        /\ InFlight(s, 1, "data/history")
        /\ Answer(s, 1, [ok |-> TRUE, body |-> body])
        /\ UNCHANGED <<config, store>>

StoreAnswersUpload(s) ==
    /\ InFlight(s, 1, "assets/images")
    /\ Answer(s, 1, [ok |-> TRUE, body |-> [document |-> AssetDocument]])
    /\ UNCHANGED <<config, store>>

\* a non-success answer, to any request: the store is unchanged
StoreFails(s) ==
    \E i \in 1..2 :
        /\ calls[s].status = "waiting"
        /\ i \in 1..Len(calls[s].reqs)
        /\ calls[s].got[i] = Pending
        /\ Answer(s, i, FailedResponse)
        /\ UNCHANGED <<config, store>>

-----------------------------------------------------------------------------
(* Specifications.                                                         *)

\* One caller, every method, one call at a time.
Init ==
    /\ config \in {SanityClient(cfg) : cfg \in ConfigInputs}
    /\ store \in Stores
    /\ calls = [s \in Callers |-> NoCall]

Next ==
    \/ PublishDocument("c1")
    \/ UnpublishDocument("c1")
    \/ GetDraftStatus("c1")
    \/ CreateDocument("c1")
    \/ UpdateDocument("c1")
    \/ PatchDocument("c1")
    \/ DeleteDocument("c1")
    \/ BulkMutate("c1")
    \/ UploadImage("c1")
    \/ GetHistory("c1")
    \/ StoreAnswersQuery("c1")
    \/ StoreAppliesMutations("c1")
    \/ StoreAnswersHistory("c1")
    \/ StoreAnswersUpload("c1")
    \/ StoreFails("c1")
    \/ CallEnds("c1")

Spec == Init /\ [][Next]_vars

\* Two callers whose calls of the draft / publish workflow interleave.
InitConcurrent ==
    /\ config \in {SanityClient(ConfigBase), SanityClient(ConfigBase @@ [token |-> "sk-token"])}
    /\ store \in Stores
    /\ calls = [s \in Callers |-> NoCall]

NextConcurrent ==
    \E s \in Callers :
        \/ PublishDocument(s)
        \/ UnpublishDocument(s)
        \/ GetDraftStatus(s)
        \/ StoreAnswersQuery(s)
        \/ StoreAppliesMutations(s)
        \/ StoreFails(s)
        \/ CallEnds(s)

SpecConcurrent == InitConcurrent /\ [][NextConcurrent]_vars

\* One caller comparing documents whose application fields vary.
DiffValues ==
    [a |-> {Num(1), Num(2)},
     b |-> {Num(2), Str("2")},
     c |-> {Num(3), Obj(<<<<"x", 1>>, <<"y", 2>>>>), Obj(<<<<"y", 2>>, <<"x", 1>>>>)}]

DiffFields == {f \in UNION {[ks -> UNION {DiffValues[k] : k \in DOMAIN DiffValues}] :
                               ks \in SUBSET DOMAIN DiffValues} :
                  \A k \in DOMAIN f : f[k] \in DiffValues[k]}

DiffDocs(id) == {[_id |-> id, _type |-> "post", _rev |-> "r1"] @@ f : f \in DiffFields}

DiffStores ==
    {s \in [Ids -> UNION {DiffDocs(id) : id \in Ids} \cup {Null}] :
        \A id \in Ids : \/ s[id] = Null
                        \/ s[id]._id = id /\ Len(id) <= 2}

InitDiff ==
    /\ config \in {SanityClient(ConfigBase), SanityClient(ConfigBase @@ [token |-> "sk-token"])}
    /\ store \in DiffStores
    /\ calls = [s \in Callers |-> NoCall]

NextDiff ==
    \/ CompareDocuments("c1")
    \/ StoreAnswersQuery("c1")
    \/ StoreFails("c1")
    \/ CallEnds("c1")

SpecDiff == InitDiff /\ [][NextDiff]_vars

\* One caller reading the history of documents that may lack a revision
\* marker or an update timestamp.
HistoryDocs(id) ==
    {[_id |-> id, _type |-> "post"] @@ f :
        f \in {<<>>, [_rev |-> "r1"], [_updatedAt |-> "t1"],
                [_rev |-> "r1", _updatedAt |-> "t1"]}}

HistoryStores ==
    {s \in [Ids -> UNION {HistoryDocs(id) : id \in Ids} \cup {Null}] :
        \A id \in Ids : s[id] = Null \/ s[id]._id = id}

InitHistory ==
    /\ config \in {SanityClient(cfg) : cfg \in ConfigInputs}
    /\ store \in HistoryStores
    /\ calls = [s \in Callers |-> NoCall]

NextHistory ==
    \/ GetHistory("c1")
    \/ StoreAnswersHistory("c1")
    \/ StoreAnswersQuery("c1")
    \/ StoreFails("c1")
    \/ CallEnds("c1")

SpecHistory == InitHistory /\ [][NextHistory]_vars

\* One caller sending queries of its own.
InitQuery ==
    /\ config \in {SanityClient(cfg) : cfg \in ConfigInputs}
    /\ store \in Stores
    /\ calls = [s \in Callers |-> NoCall]

NextQuery ==
    \/ QueryCall("c1")
    \/ GetDocumentTypes("c1")
    \/ GetDocumentCall("c1")
    \/ GetDocumentsByType("c1")
    \/ StoreAnswersQuery("c1")
    \/ StoreFails("c1")
    \/ CallEnds("c1")

SpecQuery == InitQuery /\ [][NextQuery]_vars

\* One caller patching documents, with the client or through the gateway.
InitTools ==
    /\ config \in {SanityClient(cfg) : cfg \in ConfigInputs}
    /\ store \in Stores
    /\ calls = [s \in Callers |-> NoCall]

NextTools ==
    \/ PatchDocument("c1")
    \/ SanityPatch("c1")
    \/ ToolCalled("c1")
    \/ StoreAnswersQuery("c1")
    \/ StoreAppliesMutations("c1")
    \/ StoreFails("c1")
    \/ CallEnds("c1")

SpecTools == InitTools /\ [][NextTools]_vars

\* One caller publishing while another caller replaces documents.
InitRace ==
    /\ config \in {SanityClient(ConfigBase), SanityClient(ConfigBase @@ [token |-> "sk-token"])}
    /\ store \in Stores
    /\ calls = [s \in Callers |-> NoCall]

NextRace ==
    \/ PublishDocument("c1")
    \/ UpdateDocument("c2")
    \/ \E s \in Callers :
          \/ StoreAnswersQuery(s)
          \/ StoreAppliesMutations(s)
          \/ StoreFails(s)
          \/ CallEnds(s)

SpecRace == InitRace /\ [][NextRace]_vars

\* One caller publishing a draft-only item while another reads its status.
InitSnapshot ==
    /\ config \in {SanityClient(ConfigBase), SanityClient(ConfigBase @@ [token |-> "sk-token"])}
    /\ store \in {st \in Stores : \A id \in Ids : st[id] # Null <=> Len(id) = 2}
    /\ calls = [s \in Callers |-> NoCall]

NextSnapshot ==
    \/ PublishDraft("c1")
    \/ GetDraftStatus("c2")
    \/ \E s \in Callers :
          \/ StoreAnswersQuery(s)
          \/ StoreAppliesMutations(s)
          \/ StoreFails(s)
          \/ CallEnds(s)

SpecSnapshot == InitSnapshot /\ [][NextSnapshot]_vars

-----------------------------------------------------------------------------
(* Properties.                                                             *)

\* One caller running the publish / unpublish round trip, nobody else writing.
InitRoundTrip ==
    /\ config \in {SanityClient(ConfigBase), SanityClient(ConfigBase @@ [token |-> "sk-token"])}
    /\ store \in Stores
    /\ calls = [s \in Callers |-> NoCall]

NextRoundTrip ==
    \/ RoundTripStarts("c1")
    \/ RoundTripContinues("c1")
    \/ StoreAnswersQuery("c1")
    \/ StoreAppliesMutations("c1")
    \/ StoreFails("c1")
    \/ CallEnds("c1")

SpecRoundTrip == InitRoundTrip /\ [][NextRoundTrip]_vars

\* the id without its leading 'drafts.' prefix, if it has one
Unprefixed(id) == IF Len(id) > 1 /\ id[1] = DraftsPrefix THEN Tail(id) ELSE id

\* the fields of a document other than _id and _rev
Content(doc) == [k \in (DOMAIN doc) \ {"_id", "_rev"} |-> doc[k]]

\* the positions of the call's requests to the mutate endpoint
MutateCalls(c) == {i \in 1..Len(c.reqs) : c.reqs[i].endpoint = "data/mutate"}

Answered(c, i) == i <= Len(c.got) /\ c.got[i] # Pending

Found(c, i) == Answered(c, i) /\ c.got[i].ok /\ c.got[i].result # Null

\* C1: for an id with or without the 'drafts.' prefix whose lookup returned a
\* document, once publishDocument(id) has succeeded, a document with the
\* fetched content exists at the published id (the id without the prefix) and
\* no document exists at the draft id: content is moved, never destroyed.
C1_PublishMovesContent ==
    \A s \in Callers :
        LET c == calls[s] IN
        (c.op = "publishDocument" /\ c.status = "returned") =>
            LET pub == Unprefixed(c.args[1]) IN
            /\ Exists(store, pub)
            /\ Content(store[pub]) = Content(c.got[1].result)
            /\ ~Exists(store, WithDrafts(pub))

\* C2: for an id with or without the 'drafts.' prefix whose lookup returned a
\* document, once unpublishDocument(id) has succeeded, a document with the
\* fetched content exists at drafts.<base id>, no document exists at the
\* published id, and the batch was [createOrReplace at the draft id, delete of
\* the given id].
C2_UnpublishMovesContent ==
    \A s \in Callers :
        LET c == calls[s] IN
        (c.op = "unpublishDocument" /\ c.status = "returned") =>
            LET pub == Unprefixed(c.args[1])
                draft == WithDrafts(pub)
            IN  /\ Exists(store, draft)
                /\ Content(store[draft]) = Content(c.got[1].result)
                /\ ~Exists(store, pub)
                /\ Len(c.reqs[2].mutations) = 2
                /\ c.reqs[2].mutations[1] =
                       [createOrReplace |-> Content(c.got[1].result) @@ [_id |-> draft]]
                /\ c.reqs[2].mutations[2] = [delete |-> [id |-> c.args[1]]]

\* C3: publishDocument('drafts.X') with a credential: if the lookup returned a
\* document, exactly one mutate request is issued, after the read, with the
\* list [createOrReplace of the fetched fields except _id and _rev under
\* _id = X, delete of drafts.X]; if the lookup returned absent, the call fails
\* with the not-found error naming the id and no mutate request is issued.
C3_PublishBatch ==
    \A s \in Callers :
        LET c == calls[s] IN
        (/\ c.op = "publishDocument"
         /\ StartsWithDrafts(c.args[1])
         /\ HasToken(config)
         /\ Answered(c, 1)
         /\ c.got[1].ok) =>
            LET draftId == c.args[1]
                fetched == c.got[1].result
            IN  IF fetched # Null
                THEN /\ MutateCalls(c) = {2}
                     /\ c.reqs[2].mutations =
                            << [createOrReplace |->
                                   [k \in (DOMAIN fetched) \ {"_rev"} |->
                                       IF k = "_id" THEN Tail(draftId) ELSE fetched[k]]],
                               [delete |-> [id |-> draftId]] >>
                ELSE /\ c.status = "threw"
                     /\ c.ret.error = "NotFoundError"
                     /\ c.ret.id = draftId
                     /\ MutateCalls(c) = {}

C3_Witness ==
    \E s \in Callers :
        /\ calls[s].op = "publishDocument"
        /\ StartsWithDrafts(calls[s].args[1])
        /\ HasToken(config)
        /\ calls[s].status = "returned"
        /\ Found(calls[s], 1)

\* a step in which the store applies the batch of caller s
BatchApplied(s) ==
    /\ calls[s].status = "waiting"
    /\ Len(calls[s].reqs) = 2
    /\ calls[s].got[2] = Pending
    /\ calls'[s].got[2] # Pending
    /\ calls'[s].got[2].ok

\* C4: during a publish of drafts.X or an unpublish of X, in every state of
\* the store the content exists under X or under drafts.X: no step of the
\* store leaves the source deleted and the target not written.
C4_NoContentGap ==
    [][\A s \in Callers :
          LET c == calls[s]
              wellFormed == \/ c.op = "publishDocument" /\ StartsWithDrafts(c.args[1])
                            \/ c.op = "unpublishDocument" /\ ~StartsWithDrafts(c.args[1])
          IN  (c.op \in {"publishDocument", "unpublishDocument"}
               /\ wellFormed /\ BatchApplied(s)) =>
                  LET X == Unprefixed(c.args[1]) IN
                  /\ Exists(store', X) \/ Exists(store', WithDrafts(X))
                  /\ \A id \in Ids \ {X, WithDrafts(X)} : store'[id] = store[id]
      ]_vars

C4_Witness ==
    \E s \in Callers, t \in Callers :
        /\ s # t
        /\ calls[s].op = "publishDocument"
        /\ StartsWithDrafts(calls[s].args[1])
        /\ calls[s].status = "returned"
        /\ calls[t].op = "getDraftStatus"
        /\ calls[t].status = "waiting"
        /\ Answered(calls[t], 1)

\* the number of mutations a call of the method submits
SubmittedCount(c) ==
    CASE c.op \in {"createDocument", "updateDocument", "patchDocument", "deleteDocument"} -> 1
      [] c.op \in {"publishDocument", "unpublishDocument"} -> 2
      [] c.op = "bulkMutate" -> Len(c.args[1])
      [] OTHER -> 0

SubmittingOps ==
    {"createDocument", "updateDocument", "patchDocument", "deleteDocument",
     "publishDocument", "unpublishDocument", "bulkMutate"}

\* C5: every operation that submits mutations issues one request to the
\* mutate endpoint per invocation (never more; exactly one when it returns),
\* carrying all of its mutations in one list, and nothing after it; for
\* bulkMutate the list is the caller's list, same elements, same order.
C5_OneMutateRequest ==
    \A s \in Callers :
        LET c == calls[s] IN
        c.status # "idle" =>
            /\ Cardinality(MutateCalls(c)) <= 1
            /\ c.op \notin SubmittingOps => MutateCalls(c) = {}
            /\ (/\ c.status = "returned"
                /\ c.op \in SubmittingOps
                /\ ~(c.op = "bulkMutate" /\ c.args[2])) => Cardinality(MutateCalls(c)) = 1
            /\ \A i \in MutateCalls(c) :
                  /\ i = Len(c.reqs)
                  /\ Len(c.reqs[i].mutations) = SubmittedCount(c)
                  /\ c.op = "bulkMutate" => c.reqs[i].mutations = c.args[1]

C5_Witness ==
    \E s \in Callers :
        /\ calls[s].op = "bulkMutate"
        /\ calls[s].status = "returned"
        /\ ~calls[s].args[2]
        /\ Len(calls[s].args[1]) = 2
        /\ calls[s].args[1][1] # calls[s].args[1][2]

CredentialOps ==
    {"createDocument", "updateDocument", "patchDocument", "deleteDocument",
     "uploadImage", "getHistory", "bulkMutate"}

\* C6: on a client without a credential, createDocument, updateDocument,
\* patchDocument, deleteDocument, uploadImage, getHistory and bulkMutate (with
\* or without dryRun) fail with the auth-required error and issue no request.
C6_AuthRequired ==
    ~HasToken(config) =>
        \A s \in Callers :
            LET c == calls[s] IN
            c.op \in CredentialOps =>
                /\ c.status = "threw"
                /\ c.ret.error = "AuthRequiredError"
                /\ c.reqs = <<>>

C6_Witness ==
    \E s \in Callers :
        /\ ~HasToken(config)
        /\ "token" \in DOMAIN config
        /\ calls[s].op = "bulkMutate"
        /\ calls[s].args[2]
        /\ calls[s].status = "threw"

\* C7 (as stated): publishDocument and unpublishDocument on a client without a
\* credential raise the auth-required error before any network call: no
\* request reaches the store.
C7_AuthBeforeAnyCall ==
    ~HasToken(config) =>
        \A s \in Callers :
            LET c == calls[s] IN
            c.op \in {"publishDocument", "unpublishDocument"} =>
                /\ c.reqs = <<>>
                /\ c.status = "threw"
                /\ c.ret.error = "AuthRequiredError"

\* C7 (amended): without a credential, publishDocument and unpublishDocument
\* issue their document lookup, and nothing else: no mutate request is ever
\* issued.  The auth-required error is raised once the lookup has returned a
\* document; an absent document gives the not-found error, a failed lookup the
\* query error.
C7_AuthBeforeMutate ==
    ~HasToken(config) =>
        \A s \in Callers :
            LET c == calls[s] IN
            c.op \in {"publishDocument", "unpublishDocument"} =>
                /\ Len(c.reqs) = 1
                /\ c.reqs[1].endpoint = "data/query"
                /\ c.reqs[1].params.id = c.args[1]
                /\ ~Answered(c, 1) => c.status = "waiting"
                /\ Answered(c, 1) =>
                      /\ c.status = "threw"
                      /\ c.ret.error = IF ~c.got[1].ok THEN "QueryError"
                                       ELSE IF c.got[1].result = Null THEN "NotFoundError"
                                       ELSE "AuthRequiredError"

C7_Witness ==
    \E s \in Callers :
        /\ ~HasToken(config)
        /\ calls[s].op = "unpublishDocument"
        /\ calls[s].status = "threw"
        /\ calls[s].ret.error = "AuthRequiredError"
        /\ Found(calls[s], 1)

MutationKinds == {"create", "createOrReplace", "createIfNotExists", "patch", "delete"}

\* C8: with a credential, bulkMutate(ops, {dryRun: true}) issues no request and
\* returns transactionId 'dry-run' with one result entry per operation, entry i
\* naming the kind of ops[i], in input order; the store is left unchanged.
C8_DryRun ==
    [][\A s \in Callers :
          LET c == calls'[s] IN
          (HasToken(config) /\ c.op = "bulkMutate" /\ c.args[2]) =>
              /\ c.status = "returned"
              /\ c.reqs = <<>>
              /\ c.ret.transactionId = "dry-run"
              /\ Len(c.ret.results) = Len(c.args[1])
              /\ \A i \in 1..Len(c.args[1]) :
                    \E k \in MutationKinds :
                        /\ k \in DOMAIN c.args[1][i]
                        /\ c.ret.results[i].operation = k
              /\ store' = store
      ]_vars

C8_Witness ==
    \E s \in Callers :
        /\ HasToken(config)
        /\ calls[s].op = "bulkMutate"
        /\ calls[s].args[2]
        /\ calls[s].status = "returned"
        /\ Len(calls[s].args[1]) = 2
        /\ "delete" \in DOMAIN calls[s].args[1][1]
        /\ "patch" \in DOMAIN calls[s].args[1][2]

StatusTable(published, draft) ==
    CASE published /\ draft   -> [status |-> "both", hasUnpublishedChanges |-> TRUE]
      [] published /\ ~draft  -> [status |-> "published", hasUnpublishedChanges |-> FALSE]
      [] ~published /\ draft  -> [status |-> "draft", hasUnpublishedChanges |-> TRUE]
      [] ~published /\ ~draft -> [status |-> "none", hasUnpublishedChanges |-> FALSE]

\* C9: getDraftStatus, given X or drafts.X, looks up X and drafts.X and
\* classifies by existence: only X 'published' / false, only drafts.X 'draft' /
\* true, both 'both' / true, neither 'none' / false; the lookups and the
\* result are the same for both forms of the id, and hasUnpublishedChanges is
\* true iff the draft lookup returned a document.
C9_DraftStatus ==
    \A s \in Callers :
        LET c == calls[s] IN
        (c.op = "getDraftStatus" /\ Len(c.args[1]) <= 2) =>
            LET X == <<c.args[1][Len(c.args[1])]>>
                draftX == <<DraftsPrefix>> \o X
            IN  /\ Len(c.reqs) = 2
                /\ c.reqs[1].params.id = X
                /\ c.reqs[2].params.id = draftX
                /\ c.status = "returned" =>
                      /\ c.ret.status = StatusTable(Exists(store, X), Exists(store, draftX)).status
                      /\ c.ret.hasUnpublishedChanges =
                             StatusTable(Exists(store, X), Exists(store, draftX)).hasUnpublishedChanges
                      /\ c.ret.hasUnpublishedChanges = (c.got[2].result # Null)
                      /\ c.ret.published = store[X]
                      /\ c.ret.draft = store[draftX]

C9_Witness ==
    \E s \in Callers :
        /\ calls[s].op = "getDraftStatus"
        /\ StartsWithDrafts(calls[s].args[1])
        /\ Len(calls[s].args[1]) = 2
        /\ calls[s].status = "returned"
        /\ calls[s].ret.status = "draft"

Elements(list) == {list[i] : i \in 1..Len(list)}

AppFields(doc) == {k \in DOMAIN doc : ~StartsWithUnderscore(k)}

\* C10: compareDocuments(A, B), when both documents exist: added, removed,
\* changed and unchanged are pairwise disjoint, hold no underscore-prefixed
\* name and together hold exactly the application field names of A and B; a
\* field is added iff in B and not A, removed iff in A and not B, unchanged iff
\* in both with equal serialized values, changed iff in both with unequal ones.
C10_Diff ==
    \A s \in Callers :
        LET c == calls[s] IN
        (c.op = "compareDocuments" /\ Found(c, 1) /\ Found(c, 2)) =>
            LET A == c.got[1].result
                B == c.got[2].result
                r == c.ret
                lists == <<r.added, r.removed, r.changed, r.unchanged>>
            IN  /\ c.status = "returned"
                /\ Elements(r.added) = AppFields(B) \ AppFields(A)
                /\ Elements(r.removed) = AppFields(A) \ AppFields(B)
                /\ Elements(r.unchanged) =
                       {k \in AppFields(A) \cap AppFields(B) : Stringify(A[k]) = Stringify(B[k])}
                /\ Elements(r.changed) =
                       {k \in AppFields(A) \cap AppFields(B) : Stringify(A[k]) # Stringify(B[k])}
                /\ \A i \in 1..4, j \in 1..4 :
                      i # j => Elements(lists[i]) \cap Elements(lists[j]) = {}
                /\ \A i \in 1..4 :
                      /\ Cardinality(Elements(lists[i])) = Len(lists[i])
                      /\ \A k \in Elements(lists[i]) : ~StartsWithUnderscore(k)
                /\ UNION {Elements(lists[i]) : i \in 1..4} = AppFields(A) \cup AppFields(B)

C10_Witness ==
    \E s \in Callers :
        /\ calls[s].op = "compareDocuments"
        /\ calls[s].status = "returned"
        /\ Content(calls[s].got[1].result) = [_type |-> "post", a |-> Num(1), b |-> Num(2)]
        /\ Content(calls[s].got[2].result) = [_type |-> "post", b |-> Num(2), c |-> Num(3)]
        /\ calls[s].ret = [added |-> <<"c">>, removed |-> <<"a">>,
                           changed |-> <<>>, unchanged |-> <<"b">>]

\* the lookup i of the call was answered with "no such document"
Absent(c, i) == Answered(c, i) /\ c.got[i].ok /\ c.got[i].result = Null

\* the lookup i of the call was answered with a non-success status
Failed(c, i) == Answered(c, i) /\ ~c.got[i].ok

\* C11 (as stated): whenever either lookup of compareDocuments(idA, idB) has
\* returned absent, the finished call has failed with the not-found error
\* naming idA when A is absent and idB when only B is absent.
C11_NotFoundWheneverAbsent ==
    \A s \in Callers :
        LET c == calls[s] IN
        (/\ c.op = "compareDocuments"
         /\ c.status # "waiting"
         /\ Absent(c, 1) \/ Absent(c, 2)) =>
            /\ c.status = "threw"
            /\ c.ret = NotFoundError("Document not found",
                                     IF Absent(c, 1) THEN c.args[1] ELSE c.args[2])

\* C11 (amended): compareDocuments(idA, idB) issues both lookups at once; when
\* both lookups have been answered and either is absent, it fails with the
\* not-found error naming idA when A is absent (also when both are) and idB
\* when only B is absent, and returns no diff; when one lookup is absent and
\* the other is answered with a non-success status, it fails with the query
\* error of that answer instead.
C11_NotFound ==
    \A s \in Callers :
        LET c == calls[s] IN
        c.op = "compareDocuments" =>
            /\ Len(c.reqs) = 2
            /\ c.reqs[1].params = [id |-> c.args[1]]
            /\ c.reqs[2].params = [id |-> c.args[2]]
            /\ (AllAnswered(c) /\ ~AnyFailed(c) /\ (Absent(c, 1) \/ Absent(c, 2))) =>
                  /\ c.status = "threw"
                  /\ c.ret = NotFoundError("Document not found",
                                           IF Absent(c, 1) THEN c.args[1] ELSE c.args[2])
            /\ \A i \in 1..2 :
                  Failed(c, i) => c.status = "threw" /\ c.ret = QueryError(c.got[i])

C11_Witness ==
    \E s \in Callers :
        /\ calls[s].op = "compareDocuments"
        /\ Absent(calls[s], 1) /\ Absent(calls[s], 2)
        /\ calls[s].args[1] # calls[s].args[2]
        /\ calls[s].status = "threw"
        /\ calls[s].ret = NotFoundError("Document not found", calls[s].args[1])

\* C12: getHistory on a client with a credential, when the history endpoint
\* answers with a non-success status, issues one lookup of the document and
\* returns one synthesized entry (the document's id, its revision marker or
\* 'unknown', its update timestamp or the current time) if the document
\* exists and the empty list if it does not, and fails only if that lookup
\* fails; when the history endpoint succeeds it returns the endpoint's
\* revision list, empty if none is present, without a lookup.
C12_HistoryFallback ==
    \A s \in Callers :
        LET c == calls[s] IN
        (c.op = "getHistory" /\ HasToken(config)) =>
            /\ c.reqs[1].endpoint = "data/history"
            /\ Failed(c, 1) =>
                  /\ Len(c.reqs) = 2
                  /\ c.reqs[2].endpoint = "data/query"
                  /\ c.reqs[2].params = [id |-> c.args[1]]
                  /\ c.status = "threw" => Failed(c, 2) /\ c.ret = QueryError(c.got[2])
                  /\ Absent(c, 2) => c.status = "returned" /\ c.ret = <<>>
                  /\ Found(c, 2) =>
                        LET doc == c.got[2].result IN
                        /\ c.status = "returned"
                        /\ Len(c.ret) = 1
                        /\ c.ret[1]._id = doc._id
                        /\ c.ret[1]._rev =
                              IF "_rev" \in DOMAIN doc THEN doc._rev ELSE "unknown"
                        /\ c.ret[1]._updatedAt =
                              IF "_updatedAt" \in DOMAIN doc THEN doc._updatedAt ELSE "now"
                        /\ DOMAIN c.ret[1] = {"_id", "_rev", "_updatedAt"}
            /\ (Answered(c, 1) /\ c.got[1].ok) =>
                  /\ Len(c.reqs) = 1
                  /\ c.status = "returned"
                  /\ c.ret = IF "documents" \in DOMAIN c.got[1].body
                             THEN c.got[1].body.documents ELSE <<>>

C12_Witness ==
    \E s \in Callers :
        /\ calls[s].op = "getHistory"
        /\ Failed(calls[s], 1)
        /\ Found(calls[s], 2)
        /\ "_rev" \notin DOMAIN calls[s].got[2].result
        /\ calls[s].status = "returned"
        /\ calls[s].ret[1]._rev = "unknown"

\* C13: query() issues exactly one request, by GET iff the URL-encoded length
\* of the query string is below 10000 and by POST iff it is 10000 or more
\* (9999 gives GET, 10000 gives POST), whatever the parameters are.
C13_QueryMethod ==
    \A s \in Callers :
        LET c == calls[s] IN
        c.op = "query" =>
            /\ Len(c.reqs) = 1
            /\ c.reqs[1].endpoint = "data/query"
            /\ c.reqs[1].query = c.args[1]
            /\ c.reqs[1].method \in {"GET", "POST"}
            /\ c.reqs[1].method = "GET" <=> EncodedLength(c.args[1]) < 10000
            /\ c.reqs[1].method = "POST" <=> EncodedLength(c.args[1]) >= 10000
            /\ EncodedLength(c.args[1]) = 9999 => c.reqs[1].method = "GET"
            /\ EncodedLength(c.args[1]) = 10000 => c.reqs[1].method = "POST"

C13_Witness ==
    \E s \in Callers :
        /\ calls[s].op = "query"
        /\ EncodedLength(calls[s].args[1]) = 10000
        /\ Length(calls[s].args[1]) < 10000
        /\ calls[s].args[2] # Null
        /\ calls[s].reqs[1].method = "POST"
        /\ calls[s].status = "returned"

\* C14: updateDocument(id, document) submits exactly one mutation, a
\* createOrReplace whose _id is the id argument, for every payload, also one
\* that has an _id field of its own different from id.
C14_UpdateKeyedOnId ==
    \A s \in Callers :
        LET c == calls[s] IN
        (c.op = "updateDocument" /\ HasToken(config)) =>
            /\ Len(c.reqs) = 1
            /\ Len(c.reqs[1].mutations) = 1
            /\ DOMAIN c.reqs[1].mutations[1] = {"createOrReplace"}
            /\ c.reqs[1].mutations[1].createOrReplace._id = c.args[1]

\* the patch mutation of the call's only request carries id and exactly the
\* instructions of the given set that the caller supplied, each unchanged
ForwardsExactly(c, id, supplied, instructions) ==
    /\ Len(c.reqs) = 1
    /\ c.reqs[1].endpoint = "data/mutate"
    /\ Len(c.reqs[1].mutations) = 1
    /\ DOMAIN c.reqs[1].mutations[1] = {"patch"}
    /\ LET patch == c.reqs[1].mutations[1].patch IN
       /\ patch.id = id
       /\ DOMAIN patch = {"id"} \cup (DOMAIN supplied \cap instructions)
       /\ \A k \in DOMAIN supplied \cap instructions : patch[k] = supplied[k]

\* C15 (as stated): patchDocument(id, patches) submits one patch mutation
\* keyed on id whose instruction fields are exactly those supplied among set,
\* unset, inc, dec and insert, each with its value unchanged and none that is
\* absent; the same holds for a call of the tool sanity_patch.
C15_PatchForwardsSupplied ==
    \A s \in Callers :
        LET c == calls[s] IN
        /\ (c.op = "patchDocument" /\ HasToken(config)) =>
              ForwardsExactly(c, c.args[1], c.args[2],
                              {"set", "unset", "inc", "dec", "insert"})
        /\ (c.op = "sanity_patch" /\ HasToken(config)) =>
              ForwardsExactly(c, c.args[1].id, c.args[1],
                              {"set", "unset", "inc", "dec", "insert"})

\* C15 (amended): patchDocument(id, patches) submits one patch mutation keyed
\* on id whose instruction fields are exactly those supplied among set, unset,
\* inc, dec and insert, each with its value unchanged and none that is absent;
\* a call of the tool sanity_patch forwards in the same way the instructions
\* supplied among set, unset, inc and dec, and never an insert instruction.
C15_PatchForwards ==
    \A s \in Callers :
        LET c == calls[s] IN
        /\ (c.op = "patchDocument" /\ HasToken(config)) =>
              ForwardsExactly(c, c.args[1], c.args[2],
                              {"set", "unset", "inc", "dec", "insert"})
        /\ (c.op = "sanity_patch" /\ HasToken(config)) =>
              ForwardsExactly(c, c.args[1].id, c.args[1], {"set", "unset", "inc", "dec"})

C15_Witness ==
    \E s \in Callers :
        /\ calls[s].op = "sanity_patch"
        /\ DOMAIN calls[s].args[1] = {"id", "inc", "dec", "insert"}
        /\ calls[s].status = "returned"
        /\ "isError" \notin DOMAIN calls[s].ret
        /\ DOMAIN calls[s].reqs[1].mutations[1].patch = {"id", "inc", "dec"}

\* the requests of the call to the given endpoints
RequestsTo(c, endpoints) == {i \in 1..Len(c.reqs) : c.reqs[i].endpoint \in endpoints}

\* C16: the stored useCdn flag is the override given at construction, true or
\* false, and without an override it is "no credential configured"; every
\* query request goes to the host apicdn iff useCdn is true and to the host
\* api otherwise.
C16_UseCdn ==
    /\ \A cfg \in ConfigInputs :
          config = SanityClient(cfg) =>
              config.useCdn = IF "useCdn" \in DOMAIN cfg THEN cfg.useCdn
                              ELSE ~("token" \in DOMAIN cfg /\ cfg.token # "")
    /\ \A s \in Callers :
          \A i \in RequestsTo(calls[s], {"data/query"}) :
              /\ config.useCdn => calls[s].reqs[i].host = "apicdn"
              /\ ~config.useCdn => calls[s].reqs[i].host = "api"

C16_Witness ==
    \E s \in Callers :
        /\ config = SanityClient(ConfigBase @@ [token |-> "sk-token", useCdn |-> TRUE])
        /\ calls[s].op = "publishDocument"
        /\ Len(calls[s].reqs) = 2
        /\ calls[s].reqs[1].host = "apicdn"

\* C17: every mutate, image-upload and history request goes to the host api,
\* never to the host apicdn, whatever the configuration, also when useCdn was
\* overridden to true.
C17_WritesUseDirectHost ==
    \A s \in Callers :
        \A i \in RequestsTo(calls[s], {"data/mutate", "assets/images", "data/history"}) :
            calls[s].reqs[i].host = "api"

C17_Witness ==
    \E s \in Callers :
        /\ config.useCdn
        /\ calls[s].op = "unpublishDocument"
        /\ calls[s].status = "returned"
        /\ calls[s].reqs[1].host = "apicdn"
        /\ calls[s].reqs[2].endpoint = "data/mutate"
        /\ calls[s].reqs[2].host = "api"

\* C18: every request the client issues carries the header
\* 'Authorization: Bearer <token>' iff a credential is configured; without a
\* credential no request has an Authorization header.
C18_AuthorizationHeader ==
    \A s \in Callers :
        \A i \in 1..Len(calls[s].reqs) :
            LET headers == calls[s].reqs[i].headers IN
            IF "token" \in DOMAIN config /\ config.token # ""
            THEN /\ "Authorization" \in DOMAIN headers
                 /\ headers["Authorization"] = <<"Bearer ", config.token>>
            ELSE "Authorization" \notin DOMAIN headers

C18_Witness ==
    \E s \in Callers :
        /\ HasToken(config)
        /\ calls[s].op = "getDraftStatus"
        /\ Len(calls[s].reqs) = 2
        /\ \A i \in 1..2 :
              calls[s].reqs[i].headers["Authorization"] = <<"Bearer ", "sk-token">>

\* C19: when a query request of a client operation is answered with a
\* non-success status, the operation fails with a query error carrying the
\* status code and the body text of the answer; a mutate request so answered
\* makes it fail with a mutation error of the same shape; and in the step in
\* which the answer arrives the operation issues no further request, except
\* for the lookup that getHistory issues when its history request fails.
C19_ErrorPropagation ==
    [][\A s \in Callers : \A i \in 1..2 :
          LET c == calls[s]
              d == calls'[s]
          IN  (/\ c.status = "waiting"
               /\ i <= Len(c.got)
               /\ c.got[i] = Pending
               /\ Failed(d, i)) =>
                  /\ c.reqs[i].endpoint = "data/query" =>
                        /\ d.status = "threw"
                        /\ d.ret = [error |-> "QueryError", message |-> "Sanity query failed",
                                    status |-> d.got[i].status, text |-> d.got[i].text]
                  /\ c.reqs[i].endpoint = "data/mutate" =>
                        /\ d.status = "threw"
                        /\ d.ret = [error |-> "MutationError",
                                    message |-> "Sanity mutation failed",
                                    status |-> d.got[i].status, text |-> d.got[i].text]
                  /\ c.reqs[i].endpoint # "data/history" => d.reqs = c.reqs
                  /\ c.reqs[i].endpoint = "data/history" =>
                        /\ c.op = "getHistory"
                        /\ Len(d.reqs) = Len(c.reqs) + 1
                        /\ d.reqs[Len(d.reqs)].endpoint = "data/query"
                        /\ d.reqs[Len(d.reqs)].params = [id |-> c.args[1]]
      ]_vars

C19_Witness ==
    \E s \in Callers :
        /\ calls[s].op = "unpublishDocument"
        /\ Failed(calls[s], 1)
        /\ Len(calls[s].reqs) = 1
        /\ calls[s].status = "threw"
        /\ calls[s].ret.error = "QueryError"
        /\ calls[s].ret.status = 400
        /\ calls[s].ret.text = "Invalid query"

\* the range selector [from...to] of a getDocumentsByType query
RangeOf(query) == [from |-> query[4].s, to |-> query[6].s]

\* C20: getDocumentsByType(type, {limit, offset}) produces a query whose
\* range selector is [offset...offset+limit] for every supplied non-negative
\* limit and offset (limit 10 and offset 20 give [20...30]); an omitted limit
\* is 100 and an omitted offset is 0.
C20_Range ==
    \A s \in Callers :
        LET c == calls[s] IN
        c.op = "getDocumentsByType" =>
            LET options == c.args[2]
                limit  == IF "limit" \in DOMAIN options THEN options.limit ELSE 100
                offset == IF "offset" \in DOMAIN options THEN options.offset ELSE 0
            IN  /\ Len(c.reqs) = 1
                /\ RangeOf(c.reqs[1].query) =
                      [from |-> ToString(offset), to |-> ToString(offset + limit)]

\* C21: getDocument(id) returns null, raising no error, whenever the store
\* answers the lookup successfully with a null result (and the document when
\* there is one); it raises only when the answer is a non-success response.
C21_GetDocumentNull ==
    \A s \in Callers :
        LET c == calls[s] IN
        c.op = "getDocument" =>
            /\ Len(c.reqs) = 1
            /\ c.reqs[1].params = [id |-> c.args[1]]
            /\ Absent(c, 1) => c.status = "returned" /\ c.ret = Null
            /\ Found(c, 1) => c.status = "returned" /\ c.ret = c.got[1].result
            /\ c.status = "threw" => Failed(c, 1) /\ c.ret.error = "QueryError"
            /\ Failed(c, 1) => c.status = "threw"

C21_Witness ==
    \E s \in Callers :
        /\ calls[s].op = "getDocument"
        /\ store[calls[s].args[1]] = Null
        /\ Absent(calls[s], 1)
        /\ calls[s].status = "returned"
        /\ calls[s].ret = Null

\* the name starts with one of the two reserved prefixes
ReservedName(name) ==
    Len(name) >= 7 /\ \E prefix \in {"sanity.", "system."} : SubSeq(name, 1, 7) = prefix

\* the positions of the ordinary names of a list, in increasing order
OrdinaryPositions(list) == {i \in 1..Len(list) : ~ReservedName(list[i])}

\* C22: for every list of type names the store returns, getDocumentTypes
\* returns exactly the names that start with neither 'sanity.' nor 'system.',
\* in the store's order: no reserved name is included, no ordinary name is
\* dropped.
C22_DocumentTypes ==
    \A s \in Callers :
        LET c == calls[s] IN
        (c.op = "getDocumentTypes" /\ Answered(c, 1) /\ c.got[1].ok) =>
            LET list == c.got[1].result IN
            /\ c.status = "returned"
            /\ \A i \in 1..Len(c.ret) : ~ReservedName(c.ret[i])
            /\ Len(c.ret) = Cardinality(OrdinaryPositions(list))
            /\ \E f \in [1..Len(c.ret) -> 1..Len(list)] :
                  /\ \A i \in 1..Len(c.ret) : c.ret[i] = list[f[i]]
                  /\ \A i, j \in 1..Len(c.ret) : i < j => f[i] < f[j]
                  /\ {f[i] : i \in 1..Len(c.ret)} = OrdinaryPositions(list)

C22_Witness ==
    \E s \in Callers :
        /\ calls[s].op = "getDocumentTypes"
        /\ calls[s].status = "returned"
        /\ calls[s].got[1].result = <<"system.something", "post">>
        /\ calls[s].ret = <<"post">>

\* the calls of tools, by the name the caller gave
IsToolCall(c) == c.op \in ToolNames \cup {"sanity_patch"}

\* the client operation behind the tool call has thrown, or no handler exists
ToolFails(c) ==
    \/ c.op \notin TOOLS
    \/ \E i \in 1..Len(c.got) : Failed(c, i)
    \/ c.op \in {"sanity_update", "sanity_patch", "sanity_delete"} /\ ~HasToken(config)
    \/ c.op \in {"sanity_publish", "sanity_unpublish"} /\ Absent(c, 1)
    \/ c.op \in {"sanity_publish", "sanity_unpublish"} /\ Found(c, 1) /\ ~HasToken(config)

\* C23: a tool call never ends with an exception: when the client operation
\* throws, or the tool name is unknown, the call returns a response flagged
\* isError whose text is 'Error: ' followed by the error's message; a
\* successful call returns a response without the flag.
C23_GatewayCatches ==
    \A s \in Callers :
        LET c == calls[s] IN
        IsToolCall(c) =>
            /\ c.status # "threw"
            /\ ToolFails(c) => c.status = "returned"
            /\ (c.status = "returned" /\ ~ToolFails(c)) => DOMAIN c.ret = {"content"}
            /\ (c.status = "returned" /\ ToolFails(c)) =>
                  /\ DOMAIN c.ret = {"content", "isError"}
                  /\ c.ret.isError
                  /\ Head(c.ret.content) = "Error: "
                  /\ c.op \notin TOOLS =>
                        c.ret.content = <<"Error: ", "Unknown tool", ": ", c.op>>
                  /\ \A i \in 1..Len(c.got) :
                        Failed(c, i) =>
                            c.ret.content =
                                <<"Error: ",
                                  IF c.reqs[i].endpoint = "data/query"
                                  THEN "Sanity query failed" ELSE "Sanity mutation failed",
                                  ": ", c.got[i].status, " - ", c.got[i].text>>
                  /\ (c.op \in {"sanity_publish", "sanity_unpublish"} /\ Absent(c, 1)) =>
                        c.ret.content =
                            <<"Error: ",
                              IF c.op = "sanity_publish" THEN "Draft document not found"
                              ELSE "Published document not found",
                              ": ", c.reqs[1].params.id>>
                  /\ (c.op \in TOOLS /\ Len(c.reqs) = 0) =>
                        c.ret.content =
                            <<"Error: ", "Write operations require a Sanity API token">>

C23_Witness ==
    \E s \in Callers :
        /\ calls[s].op = "sanity_publish"
        /\ HasToken(config)
        /\ Found(calls[s], 1)
        /\ Failed(calls[s], 2)
        /\ calls[s].status = "returned"
        /\ calls[s].ret.isError
        /\ calls[s].ret.content[2] = "Sanity mutation failed"

\* C24: the tools sanity_references, sanity_diff, sanity_history, sanity_bulk
\* and sanity_draft_status are listed by the gateway, and a call of each is
\* dispatched to its client operation, not answered with the unknown-tool
\* error.
C24_ReadmeToolsExposed ==
    \A s \in Callers :
        LET c == calls[s] IN
        (c.op \in ReadmeTools /\ c.status = "returned") =>
            /\ c.op \in TOOLS
            /\ c.ret.content # <<"Error: ", "Unknown tool", ": ", c.op>>

\* the tool call moved the content it read from one id to the other: one
\* lookup of the source, one batch that writes the content at the target and
\* deletes the source, and after success the store holds it at the target only
ToolMoves(c, from, to) ==
    /\ Len(c.reqs) >= 1
    /\ c.reqs[1].endpoint = "data/query"
    /\ c.reqs[1].params = [id |-> from]
    /\ Len(c.reqs) = 2 =>
          /\ c.reqs[2].endpoint = "data/mutate"
          /\ Len(c.reqs[2].mutations) = 2
          /\ DOMAIN c.reqs[2].mutations[1] = {"createOrReplace"}
          /\ c.reqs[2].mutations[1].createOrReplace._id = to
          /\ "_rev" \notin DOMAIN c.reqs[2].mutations[1].createOrReplace
          /\ Content(c.reqs[2].mutations[1].createOrReplace) = Content(c.got[1].result)
          /\ c.reqs[2].mutations[2] = [delete |-> [id |-> from]]
    /\ (c.status = "returned" /\ "isError" \notin DOMAIN c.ret) =>
          /\ Len(c.reqs) = 2
          /\ store[to] # Null
          /\ Content(store[to]) = Content(c.got[1].result)
          /\ store[from] = Null

\* C25: the tool sanity_publish, given X or drafts.X, publishes the draft
\* drafts.X to X, with the same lookup and the same batch for both inputs; the
\* tool sanity_unpublish, given X or drafts.X, moves the published X to
\* drafts.X.
C25_ToolsNormaliseId ==
    \A s \in Callers :
        LET c == calls[s] IN
        c.op \in {"sanity_publish", "sanity_unpublish"} =>
            \A X \in {<<b>> : b \in BaseNames} :
                c.args[1].id \in {X, <<"drafts.">> \o X} =>
                    IF c.op = "sanity_publish"
                    THEN ToolMoves(c, <<"drafts.">> \o X, X)
                    ELSE ToolMoves(c, X, <<"drafts.">> \o X)

C25_Witness ==
    \E s \in Callers :
        /\ calls[s].op = "sanity_publish"
        /\ calls[s].args[1].id = <<"post-1">>
        /\ calls[s].status = "returned"
        /\ "isError" \notin DOMAIN calls[s].ret
        /\ store[<<"post-1">>] # Null
        /\ store[<<"drafts.", "post-1">>] = Null

\* the call record with which a method starts, from its arguments and the
\* configuration alone
BeginOf(this, op, args) ==
    CASE op = "publishDocument"   -> PublishDocumentBegin(this, args[1])
      [] op = "unpublishDocument" -> UnpublishDocumentBegin(this, args[1])
      [] op = "getDraftStatus"    -> GetDraftStatusBegin(this, args[1])

\* the answers the store can give to a request, from the request and the
\* store alone
AnswersTo(req) ==
    {FailedResponse} \cup
    (IF req.endpoint = "data/query"
     THEN {[ok |-> TRUE, result |-> r] : r \in QueryResults(store, req)}
     ELSE {[ok |-> TRUE, body |-> MutationResult(req.mutations)]})

PublishBatchApplied(s) ==
    /\ calls[s].op = "publishDocument"
    /\ calls[s].status = "waiting"
    /\ Len(calls[s].reqs) = 2
    /\ calls'[s].got[2] # Pending
    /\ calls'[s].got[2].ok

\* C27: publishDocument's read and its batch are two store operations with no
\* revision guard: whenever the batch of publishDocument('drafts.X') is
\* applied, whatever drafts.X holds at that moment, X then holds the fields
\* as read, drafts.X is deleted and the call reports success; a change another
\* writer made to drafts.X in between is lost.
C27_LostUpdate ==
    [][\A s \in Callers :
          (PublishBatchApplied(s) /\ StartsWithDrafts(calls[s].args[1])) =>
              LET draftId == calls[s].args[1]
                  X == Tail(draftId)
                  read == calls[s].got[1].result
              IN  /\ store'[X] # Null
                  /\ Content(store'[X]) = Content(read)
                  /\ store'[draftId] = Null
                  /\ calls'[s].status = "returned"
                  /\ (store[draftId] # Null /\ Content(store[draftId]) # Content(read)) =>
                        Content(store'[X]) # Content(store[draftId])
      ]_vars

\* both calls have succeeded, the update of drafts.X was applied between the
\* read and the batch of the publish, and what it wrote is nowhere
C27_Witness ==
    /\ calls["c1"].op = "publishDocument"
    /\ calls["c1"].args[1] = <<"drafts.", "post-1">>
    /\ calls["c1"].status = "returned"
    /\ calls["c2"].op = "updateDocument"
    /\ calls["c2"].status = "returned"
    /\ calls["c2"].got[1].ok
    /\ calls["c2"].reqs[1].mutations[1].createOrReplace._id = <<"drafts.", "post-1">>
    /\ Content(calls["c2"].reqs[1].mutations[1].createOrReplace) #
           Content(calls["c1"].got[1].result)
    /\ store[<<"drafts.", "post-1">>] = Null
    /\ Content(store[<<"post-1">>]) = Content(calls["c1"].got[1].result)

\* exactly one of X and drafts.X exists, for every unprefixed X
ExactlyOneExists(st) ==
    \A b \in BaseNames : Exists(st, <<b>>) # Exists(st, <<"drafts.", b>>)

\* the getDraftStatus call of t returns in this step
StatusReturns(t) ==
    /\ calls[t].op = "getDraftStatus"
    /\ calls[t].status = "waiting"
    /\ calls'[t].status = "returned"

\* C28: starting from a draft-only item, with publishDocument running beside
\* getDraftStatus, exactly one of X and drafts.X exists in every store state;
\* yet when the published-id lookup was answered (absent) before the publish
\* batch and the draft-id lookup is answered after it, getDraftStatus returns
\* 'none' with hasUnpublishedChanges false, and with the lookups answered in
\* the opposite order it returns 'both'.
C28_TornSnapshot ==
    [][/\ ExactlyOneExists(store) /\ ExactlyOneExists(store')
       /\ \A t \in Callers :
             (StatusReturns(t) /\ Len(calls[t].args[1]) <= 2) =>
                 LET X == <<calls[t].args[1][Len(calls[t].args[1])]>>
                     published == Exists(store, X) /\ ~Exists(store, <<"drafts.">> \o X)
                     r == calls'[t].ret
                 IN  /\ (Absent(calls[t], 1) /\ published) =>
                            /\ r.status = "none"
                            /\ r.hasUnpublishedChanges = FALSE
                            /\ r.published = Null /\ r.draft = Null
                     /\ (Found(calls[t], 2) /\ published) =>
                            /\ r.status = "both"
                            /\ r.hasUnpublishedChanges = TRUE
      ]_vars

C28_Witness ==
    /\ calls["c1"].op = "publishDocument"
    /\ calls["c1"].status = "returned"
    /\ calls["c2"].op = "getDraftStatus"
    /\ calls["c2"].status = "returned"
    /\ calls["c2"].ret.status = "none"
    /\ ~calls["c2"].ret.hasUnpublishedChanges
    /\ Exists(store, <<"post-1">>)

\* the store applies, in this step, the batch of the call of s, which runs op
MoveBatchApplied(s, op) ==
    /\ calls[s].op = op
    /\ calls[s].status = "waiting"
    /\ Len(calls[s].reqs) = 2
    /\ calls'[s].got[2] # Pending
    /\ calls'[s].got[2].ok

\* the requests of a call are one read of the given id and one batch
ReadsOnly(c, id) ==
    /\ Len(c.reqs) = 2
    /\ c.reqs[1].endpoint = "data/query"
    /\ c.reqs[1].params.id = id
    /\ c.reqs[2].endpoint = "data/mutate"

\* C29: unpublishDocument(X), when both X and drafts.X exist, reads X only and
\* succeeds: afterwards drafts.X exists with the fields read from X (those of
\* the former published document when nobody changed it in between) minus _id
\* and _rev, X does not exist, and a previous draft with other content is
\* gone; symmetrically publishDocument('drafts.X'), when both exist, reads
\* drafts.X only, overwrites X with the draft's fields and leaves only X.
C29_OverwritesWithoutCheck ==
    [][\A s \in Callers :
          LET id == calls[s].args[1]
              read == calls[s].got[1].result
          IN  /\ (/\ MoveBatchApplied(s, "unpublishDocument")
                  /\ ~StartsWithDrafts(id)
                  /\ Exists(store, id) /\ Exists(store, WithDrafts(id))) =>
                     /\ ReadsOnly(calls[s], id)
                     /\ calls'[s].status = "returned"
                     /\ Exists(store', WithDrafts(id))
                     /\ ~Exists(store', id)
                     /\ Content(store'[WithDrafts(id)]) = Content(read)
                     /\ store[id] = read =>
                            Content(store'[WithDrafts(id)]) = Content(store[id])
                     /\ Content(store[WithDrafts(id)]) # Content(read) =>
                            Content(store'[WithDrafts(id)]) # Content(store[WithDrafts(id)])
              /\ (/\ MoveBatchApplied(s, "publishDocument")
                  /\ StartsWithDrafts(id)
                  /\ Exists(store, id) /\ Exists(store, Tail(id))) =>
                     /\ ReadsOnly(calls[s], id)
                     /\ calls'[s].status = "returned"
                     /\ Exists(store', Tail(id))
                     /\ ~Exists(store', id)
                     /\ Content(store'[Tail(id)]) = Content(read)
                     /\ store[id] = read =>
                            Content(store'[Tail(id)]) = Content(store[id])
                     /\ Content(store[Tail(id)]) # Content(read) =>
                            Content(store'[Tail(id)]) # Content(store[Tail(id)])
      ]_vars

\* a status call saw both documents of the item as first stored, with
\* different content; unpublishDocument of the same item has since succeeded
\* and the draft now holds the published document's content
C29_Witness ==
    /\ calls["c2"].op = "getDraftStatus"
    /\ calls["c2"].status = "returned"
    /\ calls["c2"].ret.status = "both"
    /\ calls["c2"].ret.draft._rev = "r1"
    /\ calls["c2"].ret.published._rev = "r1"
    /\ Content(calls["c2"].ret.draft) # Content(calls["c2"].ret.published)
    /\ calls["c1"].op = "unpublishDocument"
    /\ calls["c1"].args[1] = <<"post-1">>
    /\ calls["c1"].status = "returned"
    /\ calls["c1"].got[1].result = calls["c2"].ret.published
    /\ ~Exists(store, <<"post-1">>)
    /\ Exists(store, <<"drafts.", "post-1">>)
    /\ Content(store[<<"drafts.", "post-1">>]) = Content(calls["c2"].ret.published)

\* the workflow of s has completed n calls and its first call found the item
\* draft-only
RoundTripFromDraft(s, n) ==
    /\ "done" \in DOMAIN calls[s]
    /\ Len(calls[s].done) = n
    /\ n >= 1
    /\ calls[s].done[1].ret.status = "draft"

\* C30: without concurrent writers, starting from a store in which only
\* drafts.X exists with fields F: after publishDocument('drafts.X') only X
\* exists, with F's fields other than _id and _rev, and getDraftStatus(X)
\* reports 'published'; after the following unpublishDocument(X) only drafts.X
\* exists, its fields other than _id and _rev equal those of F, and
\* getDraftStatus(X) reports 'draft'; neither operation fails as not found.
C30_RoundTrip ==
    \A s \in Callers :
        LET c == calls[s]
            X == c.item
            F == c.done[1].ret.draft
        IN  /\ RoundTripFromDraft(s, 1) => ~(c.status = "threw" /\ c.ret.error = "NotFoundError")
            /\ RoundTripFromDraft(s, 2) =>
                   /\ Exists(store, X) /\ ~Exists(store, WithDrafts(X))
                   /\ Content(store[X]) = Content(F)
                   /\ c.status = "returned" =>
                          /\ c.ret.status = "published"
                          /\ ~c.ret.hasUnpublishedChanges
            /\ RoundTripFromDraft(s, 3) =>
                   /\ c.done[3].ret.status = "published"
                   /\ ~(c.status = "threw" /\ c.ret.error = "NotFoundError")
            /\ RoundTripFromDraft(s, 4) =>
                   /\ Exists(store, WithDrafts(X)) /\ ~Exists(store, X)
                   /\ Content(store[WithDrafts(X)]) = Content(F)
                   /\ c.status = "returned" =>
                          /\ c.ret.status = "draft"
                          /\ Content(c.ret.draft) = Content(F)

\* the whole workflow has run from a draft-only item
C30_Witness ==
    /\ RoundTripFromDraft("c1", 4)
    /\ calls["c1"].done[2].op = "publishDocument"
    /\ calls["c1"].done[3].ret.status = "published"
    /\ calls["c1"].done[4].op = "unpublishDocument"
    /\ calls["c1"].status = "returned"
    /\ calls["c1"].ret.status = "draft"
    /\ calls["c1"].ret.draft._rev = NewRev
    /\ store[<<"drafts.", "post-1">>] = calls["c1"].ret.draft

=============================================================================
